---- MODULE Spec2Model ----
(***************************************************************************)
(* Push side of Portsy: the blob store (R2), the metadata store            *)
(* (Firestore documents projects/<name>, commits/<id>, states/<id>), the   *)
(* MetaStore operations and the PushProject worker pool.                   *)
(* One project is modelled; its name is fixed, so BuildKey depends on the  *)
(* content hash only.                                                      *)
(***************************************************************************)
EXTENDS Integers, Sequences, FiniteSets, TLC

\* ---------------------------------------------------------------- bounds
MaxCommits == 2      \* commit ids a caller may pass (1..MaxCommits)
MaxPaths   == 2      \* tracked files of the project (paths 1..MaxPaths, in path order)
MaxHash    == 2      \* distinct file contents (a content is named by its digest)
MaxEdits   == 1      \* local edits of project files during a run
MaxCalls   == 3      \* metadata calls issued directly by API clients
MaxPushes  == 2      \* PushProject calls
MaxUploaders == 2    \* clients that call UploadIfMissing concurrently
MaxUlCalls == 2      \* UploadIfMissing calls of one client
MaxFinalizes == 7    \* successful FinalizeCommit calls of a commit script
MaxSaves   == 2      \* SaveLocalCache calls
MaxCrashes == 1      \* crashes of the machine while the cache is in use
MaxWrites  == 2      \* saves of the session file
MaxLocks   == 1      \* times another program holds the session file locked
MaxStarts  == 2      \* StartWatcherAll calls
MaxRescans == 1      \* rescans of the root by WatchAllProjects
MaxStops   == 1      \* StopWatcherAll calls
MaxCallers == 2      \* UI calls of StartWatcherAll that can run at the same time

\* ---------------------------------------------------------------- constants
Last5Cap   == 5      \* clamp of ProjectDoc.Last5
NumWorkers == 2      \* max(2, runtime.NumCPU()/2) on a machine with <= 5 CPUs
StableAttempts == 10 \* waitFileStable(alsPath, 150*time.Millisecond, 10)

\* time.Now().Unix() as BeginCommit and FinalizeCommit may read it
Clock     == {8, 9}

CommitIds == 1..MaxCommits
Paths     == 1..MaxPaths
Hashes    == 1..MaxHash
NoId      == 0       \* the empty string as a commit id
NoKey     == <<"", 0>>

\* R2Client.BuildKey: <KeyPrefix>/<project>/blobs/<hash>
KeyPrefix == "pfx"
BuildKey(hash) == <<KeyPrefix, hash>>
\* a key of the layout used before KeyPrefix was configured
LegacyKey(hash) == <<"", hash>>
Keys == {BuildKey(h) : h \in Hashes} \cup {LegacyKey(h) : h \in Hashes}

VARIABLES
  localFiles,   \* project directory: path -> content digest, 0 = no file
  blobs,        \* R2 bucket: key -> digest of the object's bytes, 0 = no object
  projDoc,      \* projects/<name>
  commits,      \* projects/<name>/commits/<id>
  states,       \* projects/<name>/states/<id>
  last,         \* the most recent metadata call or write: [op, id, st, err]
  calls,        \* direct API calls issued so far
  edits,        \* local edits so far
  pushes,       \* PushProject calls so far
  cancelAt,     \* where PushProject was when its context was cancelled, "" = not cancelled
  before,       \* the metadata store as it was when PushProject was called
  pushPc,       \* position of PushProject
  pushCommit,   \* PushProject's commit argument
  cur,          \* PushProject: the scanned state
  uploads,      \* PushProject: the todo list
  fed,          \* PushProject: jobs the feeder goroutine has handed over
  wk,           \* PushProject: the workers
  results,      \* PushProject: the results the collect loop has received
  firstErr,     \* PushProject: index of the job whose error is firstErr, 0 = nil
  pushRet,      \* what the last PushProject returned
  up,           \* the UpsertLatestState call in progress: [pc, commit, state, caller]
  puts,         \* R2 bucket: key -> number of object bodies stored under it so far
  finalized,    \* ids of the FinalizeCommit calls that succeeded, in call order
  okState,      \* state recorded by the previous PushProject if it succeeded, else NoState
  ul,           \* the UploadIfMissing calls in progress: caller -> [pc, path, key, ret]
  dest,         \* destination directory of a pull: file name -> content digest, 0 = no file
  goos,         \* runtime.GOOS of the build that pulls
  pull,         \* PullProject: its position, arguments and locals
  pw,           \* PullProject: the workers
  lc,           \* .portsy of the pushed project: what main saved, and the cache files
  wt            \* the session-file watcher of one project

storeVars == <<projDoc, commits, states>>
poolVars  == <<cur, uploads, fed, wk, results, firstErr>>
pushVars  == <<pushes, cancelAt, before, pushPc, pushCommit, cur, uploads, fed, wk, results, firstErr, pushRet, up>>
vars == <<localFiles, blobs, projDoc, commits, states, last, calls, edits, pushes,
          cancelAt, before, pushPc, pushCommit, cur, uploads, fed, wk, results, firstErr, pushRet, up,
          puts, finalized, okState, ul, dest, goos, pull, pw, lc, wt>>
pullVars  == <<dest, goos, pull, pw>>
cacheVars == <<lc>>
watchVars == <<wt>>

\* ---------------------------------------------------------------- documents
Absent == -1         \* a field that the document does not carry

\* remote.ProjectDoc as stored.  FinalizeCommit writes the struct, whose tags
\* name the fields lastCommitId / lastCommitAt / last5; UpsertLatestState
\* merges a map whose keys are LastCommitID / LastCommitAt.  Firestore field
\* names are case-sensitive, so the document can carry both spellings.
NoProject == [exists |-> FALSE, lastCommitId |-> Absent, lastCommitAt |-> Absent,
              last5 |-> <<>>, LastCommitID |-> Absent, LastCommitAt |-> Absent]

NoCommit == [id |-> NoId, status |-> "", timestamp |-> 0]
NoState  == [exists |-> FALSE, files |-> <<>>]

\* remote.CommitMeta as a caller passes it
CommitMeta(id, ts, status) == [id |-> id, status |-> status, timestamp |-> ts]

\* DocumentSnapshot.DataTo(&ProjectDoc): a stored field is matched to the
\* struct field by exact name, else case-insensitively; when both spellings
\* are stored, the value decoded last wins and the order is the iteration
\* order of a Go map, so either value can result.
DecodedHeads(doc) ==
  LET present == {v \in {doc.lastCommitId, doc.LastCommitID} : v # Absent}
  IN IF present = {} THEN {NoId} ELSE present

\* MetaStore.GetLatestState: the results the call can return in this store.
\* "none" is (nil, nil, nil); "error" is a failed Get of the commit or state.
GetLatestState(doc, cms, sts) ==
  IF ~doc.exists THEN {[kind |-> "none"]}
  ELSE { IF h = NoId THEN [kind |-> "none"]
         ELSE IF cms[h] = NoCommit THEN [kind |-> "error"]
         ELSE IF sts[h] = NoState THEN [kind |-> "error"]
         ELSE [kind |-> "found", state |-> sts[h], commit |-> cms[h]]
         : h \in DecodedHeads(doc) }

\* R2Client.Exists (HeadObject; not-found maps to false)
Exists(key) == blobs[key] # 0

\* BuildManifest: one entry per file of the directory, sorted by path, R2Key
\* not assigned yet.  Content 0 is "no file at this path".
BuildManifest(files) ==
  LET all == [p \in Paths |-> [path |-> p, hash |-> files[p], r2Key |-> NoKey]]
  IN  [exists |-> TRUE, files |-> SelectSeq(all, LAMBDA e : e.hash # 0)]

\* smokePush step 2: fe.R2Key = r2.BuildKey(projectName, fe.Hash) for every entry
KeyedManifest(files) ==
  LET m == BuildManifest(files)
  IN  [m EXCEPT !.files = [i \in DOMAIN m.files |->
                             [m.files[i] EXCEPT !.r2Key = BuildKey(m.files[i].hash)]]]

\* ---------------------------------------------------------------- blob store
\* an upload whose PUT carries no If-None-Match condition
UploadFileAlways(bl, files, path, key) ==
  IF files[path] = 0 THEN <<bl, TRUE, FALSE>>
  ELSE <<[bl EXCEPT ![key] = files[path]], FALSE, TRUE>>

\* R2Client.UploadFileIfNoneMatch(local, key, "*"): opens the local file as it
\* is now and PUTs it unless an object is already there (412 -> success).
\* Result: <<new bucket, error?, object stored?>>.
UploadFileIfNoneMatch(bl, files, path, key) ==
  IF files[path] = 0 THEN <<bl, TRUE, FALSE>>               \* os.Open fails
  ELSE IF bl[key] # 0 THEN <<bl, FALSE, FALSE>>             \* precondition failed
  ELSE <<[bl EXCEPT ![key] = files[path]], FALSE, TRUE>>

\* R2Client.UploadIfMissing
UploadIfMissing(bl, files, path, key) ==
  IF bl[key] # 0 THEN <<bl, FALSE, FALSE>>
  ELSE UploadFileIfNoneMatch(bl, files, path, key)

\* R2Client.CopyIfMissing / CopyObject
CopyIfMissing(bl, fromKey, toKey) ==
  IF fromKey = toKey THEN <<bl, FALSE, FALSE>>
  ELSE IF bl[toKey] # 0 THEN <<bl, FALSE, FALSE>>
  ELSE IF bl[fromKey] = 0 THEN <<bl, TRUE, FALSE>>          \* NoSuchKey
  ELSE <<[bl EXCEPT ![toKey] = bl[fromKey]], FALSE, TRUE>>

\* the bucket's count of stored object bodies after a call on key
Stored(n, key, wrote) == IF wrote THEN [n EXCEPT ![key] = n[key] + 1] ELSE n

\* ---------------------------------------------------------------- metadata store
Last(op, id, st, err) == [op |-> op, id |-> id, st |-> st, err |-> err]

\* if commit.Timestamp == 0 { commit.Timestamp = time.Now().Unix() }
Stamp(ts, now) == IF ts = 0 THEN now ELSE ts

\* BeginCommit that also points HEAD at the pending commit
BeginCommitWriteSetsHead(c, ts, st, now) ==
  /\ projDoc' = [projDoc EXCEPT !.exists = TRUE, !.lastCommitId = c]
  /\ commits' = [commits EXCEPT ![c] = CommitMeta(c, Stamp(ts, now), "pending")]
  /\ states'  = [states EXCEPT ![c] = st]

\* the batch of BeginCommit: merge {Name, NameLower} into the project doc,
\* set commits/<id> (status pending) and states/<id>
BeginCommitWrite(c, ts, st, now) ==
  /\ projDoc' = [projDoc EXCEPT !.exists = TRUE]
  /\ commits' = [commits EXCEPT ![c] = CommitMeta(c, Stamp(ts, now), "pending")]
  /\ states'  = [states EXCEPT ![c] = st]

\* step 1 of FinalizeCommit: verify(ctx, fe.Hash) for every file of the state,
\* with verify(hash) = Exists(BuildKey(project, hash)); TRUE when all pass
VerifyAll(st) == \A i \in DOMAIN st.files : Exists(BuildKey(st.files[i].hash))

\* a clamp that keeps the five oldest ids
RollLast5KeepsOldest(l5, c) ==
  LET newLast == Append(l5, c)
  IN  IF Len(newLast) > Last5Cap THEN SubSeq(newLast, 1, Last5Cap) ELSE newLast

\* Append the new commit ID, clamp to last 5 (oldest -> newest)
RollLast5(l5, c) ==
  LET newLast == Append(l5, c)
  IN  IF Len(newLast) > Last5Cap
      THEN SubSeq(newLast, Len(newLast) - Last5Cap + 1, Len(newLast))
      ELSE newLast

\* FinalizeCommitTx with the project document merged instead of replaced:
\* the fields written by UpsertLatestState survive
FinalizeCommitTxMerge(c, ts, st, now) ==
  /\ commits' = [commits EXCEPT ![c] = CommitMeta(c, Stamp(ts, now), "final")]
  /\ states'  = [states EXCEPT ![c] = st]
  /\ projDoc' = [projDoc EXCEPT !.exists = TRUE, !.lastCommitId = c,
                                !.lastCommitAt = Stamp(ts, now),
                                !.last5 = Append(projDoc.last5, c)]

\* FinalizeCommitTx that returns early when the commit is already final
FinalizeCommitTxOnce(c, ts, st, now) ==
  IF commits[c].status = "final"
  THEN UNCHANGED storeVars
  ELSE /\ commits' = [commits EXCEPT ![c] = CommitMeta(c, Stamp(ts, now), "final")]
       /\ states'  = [states EXCEPT ![c] = st]
       /\ projDoc' = [exists |-> TRUE, lastCommitId |-> c, lastCommitAt |-> Stamp(ts, now),
                      last5 |-> Append(projDoc.last5, c),
                      LastCommitID |-> Absent, LastCommitAt |-> Absent]

\* step 2 of FinalizeCommit: the transaction.  tx.Set(p, proj) replaces the
\* whole project document by the struct.
FinalizeCommitTx(c, ts, st, now) ==
  /\ commits' = [commits EXCEPT ![c] = CommitMeta(c, Stamp(ts, now), "final")]
  /\ states'  = [states EXCEPT ![c] = st]
  /\ projDoc' = [exists |-> TRUE, lastCommitId |-> c, lastCommitAt |-> Stamp(ts, now),
                 last5 |-> RollLast5(projDoc.last5, c),
                 LastCommitID |-> Absent, LastCommitAt |-> Absent]

\* UpsertLatestState, first write: merge {Name, NameLower, LastCommitID, LastCommitAt}
UpsertHeader(c, ts) ==
  projDoc' = [projDoc EXCEPT !.exists = TRUE, !.LastCommitID = c, !.LastCommitAt = ts]

\* ---------------------------------------------------------------- destination directory
\* names of the files a pull can meet under destPath
FileName(p)  == <<"file", p>>       \* path p as the target state spells it
CasedName(p) == <<"File", p>>       \* path p in another letter case
PartName(p)  == <<"part", p>>       \* FileName(p) + ".part"
StrayName    == <<"stray", 0>>      \* a tracked file no state lists
CacheName    == <<"cache", 0>>      \* .portsy/cache.json
IconName     == <<"icon", 0>>       \* Ableton Project Info/AProject.ico
IniName      == <<"ini", 0>>        \* desktop.ini
DestNames == {FileName(p) : p \in Paths} \cup {CasedName(p) : p \in Paths}
             \cup {PartName(p) : p \in Paths}
             \cup {StrayName, CacheName, IconName, IniName}

\* digest of the bytes of a file just created or truncated
Truncated == MaxHash + 1
\* digest of a cache.json written from a fresh scan
FreshCache == MaxHash + 2

EmptyDest == [n \in DestNames |-> 0]

IdlePull == [pc |-> "idle", head |-> TRUE, target |-> NoState, allowDelete |-> FALSE,
             fed |-> 0, feeder |-> "closed", got |-> 0, ret |-> "none",
             cancelled |-> FALSE, cut |-> FALSE, cached |-> FALSE, manifest |-> {},
             start |-> EmptyDest, after |-> NoState]

IdlePullPool == [w \in 1..NumWorkers |-> [st |-> "idle", idx |-> 0, err |-> "",
                                          downloaded |-> FALSE]]

\* the content of a file under .portsy: no file, a LocalCache document with
\* its manifest (a set of <<key, hash>>) and algo, or bytes that do not parse
\* (an empty, truncated or damaged file)
NoFile == [kind |-> "none", m |-> {}, algo |-> ""]
Json(m, algo) == [kind |-> "json", m |-> m, algo |-> algo]
Cut == [kind |-> "cut", m |-> {}, algo |-> ""]

\* Algo: "sha256" default of LoadLocalCache and WriteCacheFromState
DefaultAlgo == "sha256"

\* the files .portsy has had: 1 is the cache.json found at start, every
\* OpenFile that creates cache.json.tmp makes the next one
Inodes == 1..(MaxSaves + 1)
NoDir == [cache |-> 0, tmp |-> 0]

IdleSave == [pc |-> "idle", ino |-> 0, new |-> NoFile, prev |-> NoFile, ret |-> "none"]
IdleLoad == [ret |-> "none", err |-> FALSE, m |-> {}, algo |-> "", cur |-> {},
             diff |-> <<>>]

\* no cache saved by main yet, .portsy empty
IdleCache == [root |-> "ok", pushed |-> FALSE, manifest |-> {}, state |-> NoState,
              dir |-> NoDir, ddir |-> NoDir,
              data |-> [i \in Inodes |-> NoFile], ddata |-> [i \in Inodes |-> NoFile],
              denied |-> FALSE, bad |-> NoFile, saves |-> 0, crashes |-> 0,
              save |-> IdleSave, load |-> IdleLoad]

\* lastSize before the first successful poll of waitFileStable
NoSize == -1

\* one WatchProjectALS goroutine: where its loop is, whether its context is
\* cancelled, the events fsnotify holds for it, its timer (nil, armed, or
\* fired with the value waiting in tmrC), the polls of waitFileStable, and
\* what the claims observe (callbacks made, whether a timer was armed after
\* the last event, whether an event came after a timer had fired, whether the
\* last two polls before a callback both succeeded)
IdleWatcher == [pc |-> "off", cancelled |-> FALSE, q |-> 0, tmr |-> "nil",
                polls |-> 0, last |-> NoSize, prevOk |-> FALSE, emitted |-> 0,
                covered |-> TRUE, late |-> FALSE, pairOk |-> TRUE,
                closed |-> FALSE, at |-> ""]

\* one WatchAllProjects goroutine: where it is, whether its context is done,
\* whether its fsnotify watcher is closed, the events of the root waiting in
\* w.Events, the rescan timer, and whether watchers holds the second
\* directory of the root
IdleFleet == [pc |-> "off", cancelled |-> FALSE, closed |-> FALSE, ev |-> <<>>,
              rescanT |-> "nil", hasQ |-> FALSE]

\* no watcher started: the session file at its first version, not locked
\* handle is the package variable watchCancel (0: nil, i: the cancel function
\* of fleet i); call is where each UI call of StartWatcherAll stands; qdir is
\* a second directory under the root ("none", "empty", "als")
IdleWatch == [ver |-> 0, locked |-> FALSE, writes |-> 0, locks |-> 0, starts |-> 0,
              rescans |-> 0, w |-> [i \in 1..MaxStarts |-> IdleWatcher],
              fleet |-> [i \in 1..MaxStarts |-> IdleFleet],
              handle |-> 0, call |-> [c \in 1..MaxCallers |-> "idle"],
              stops |-> 0, op |-> "", qdir |-> "none"]

IdleUl == [u \in 1..MaxUploaders |-> [pc |-> "idle", path |-> 0, key |-> NoKey,
                                      ret |-> "none", seen |-> FALSE, fault |-> FALSE,
                                      n |-> 0]]

\* ---------------------------------------------------------------- initial states
\* commit.Timestamp as the caller of commit c passes it: unset (0) for commit 1,
\* the caller's clock for the others
CallerTs(c) == c - 1

IdlePool == [w \in 1..NumWorkers |-> [st |-> "idle", idx |-> 0, key |-> NoKey,
                                      fromKey |-> NoKey, err |-> FALSE]]

IdleUp == [pc |-> "idle", commit |-> CommitMeta(NoId, 0, ""), state |-> NoState,
           caller |-> ""]

\* remote store before any push
EmptyRemote ==
  /\ blobs = [k \in Keys |-> 0]
  /\ projDoc = NoProject
  /\ commits = [c \in CommitIds |-> NoCommit]
  /\ states = [c \in CommitIds |-> NoState]

\* remote store left by a two-phase push made while KeyPrefix was not
\* configured and the project held its first file only: commit 1 is final
\* and HEAD, the blob lives at its legacy key
LegacyRemote ==
  LET st == [exists |-> TRUE,
             files |-> <<[path |-> 1, hash |-> 1, r2Key |-> LegacyKey(1)]>>]
  IN  /\ blobs = [k \in Keys |-> IF k = LegacyKey(1) THEN 1 ELSE 0]
      /\ projDoc = [exists |-> TRUE, lastCommitId |-> 1, lastCommitAt |-> 1,
                    last5 |-> <<1>>, LastCommitID |-> Absent, LastCommitAt |-> Absent]
      /\ commits = [c \in CommitIds |-> IF c = 1 THEN CommitMeta(1, 1, "final") ELSE NoCommit]
      /\ states = [c \in CommitIds |-> IF c = 1 THEN st ELSE NoState]

Init ==
  /\ localFiles = [p \in Paths |-> 1]
  /\ (EmptyRemote \/ LegacyRemote)
  /\ last = Last("none", NoId, NoState, "")
  /\ calls = 0
  /\ edits = 0
  /\ pushes = 0
  /\ cancelAt = ""
  /\ before = <<NoProject, [c \in CommitIds |-> NoCommit], [c \in CommitIds |-> NoState]>>
  /\ pushPc = "idle"
  /\ pushCommit = CommitMeta(NoId, 0, "")
  /\ cur = NoState
  /\ uploads = <<>>
  /\ fed = 0
  /\ wk = IdlePool
  /\ results = <<>>
  /\ firstErr = 0
  /\ pushRet = "none"
  /\ up = IdleUp
  /\ puts = [k \in Keys |-> IF blobs[k] # 0 THEN 1 ELSE 0]
  /\ finalized = projDoc.last5
  /\ okState = NoState
  /\ ul = IdleUl
  /\ dest = EmptyDest
  /\ goos = "linux"
  /\ pull = IdlePull
  /\ pw = IdlePullPool
  /\ lc = IdleCache
  /\ wt = IdleWatch

\* ---------------------------------------------------------------- pulls of a pushed project
\* the content of path p in the project that was pushed
HashOf(p) == ((p - 1) % MaxHash) + 1
\* a content other than the one hash h names
OtherThan(h) == (h % MaxHash) + 1

\* remote store left by one PushProject of the files in present: HEAD is
\* written by UpsertLatestState, every entry carries its BuildKey
PushedRemote(present) ==
  LET st == KeyedManifest([p \in Paths |-> IF p \in present THEN HashOf(p) ELSE 0])
  IN  /\ projDoc = [NoProject EXCEPT !.exists = TRUE, !.LastCommitID = 1,
                                     !.LastCommitAt = CallerTs(1)]
      /\ commits = [c \in CommitIds |-> IF c = 1 THEN CommitMeta(1, CallerTs(1), "")
                                         ELSE NoCommit]
      /\ states = [c \in CommitIds |-> IF c = 1 THEN st ELSE NoState]

\* the bucket: the blob of a hash is there, is missing, or holds other bytes
\* (the file was edited between the scan and its upload)
PulledBlobs ==
  {b \in [Keys -> 0..MaxHash] :
     \A h \in Hashes : b[LegacyKey(h)] = 0 /\ b[BuildKey(h)] \in {0, h, OtherThan(h)}}

\* a destination that already holds a working copy: path 1 with the pushed
\* content (under its own spelling on Windows), a file named like the temp
\* file of the last path, a stray file, the cache and the project icon
UsedDest(os) ==
  [n \in DestNames |->
     IF n \in {PartName(MaxPaths), StrayName, CacheName, IconName} THEN 1
     ELSE IF n = (IF os = "windows" THEN CasedName(1) ELSE FileName(1)) THEN HashOf(1)
     ELSE 0]

\* a destination whose copy of path 1 is out of date
StaleDest == [EmptyDest EXCEPT ![FileName(1)] = OtherThan(HashOf(1))]

InitPull ==
  /\ localFiles = [p \in Paths |-> HashOf(p)]
  /\ \E present \in SUBSET Paths : PushedRemote(present)
  /\ blobs \in PulledBlobs
  /\ goos \in {"linux", "windows"}
  /\ dest \in {EmptyDest, UsedDest(goos), StaleDest}
  /\ last = Last("none", NoId, NoState, "")
  /\ calls = 0
  /\ edits = 0
  /\ pushes = 0
  /\ cancelAt = ""
  /\ before = <<NoProject, [c \in CommitIds |-> NoCommit], [c \in CommitIds |-> NoState]>>
  /\ pushPc = "idle"
  /\ pushCommit = CommitMeta(NoId, 0, "")
  /\ cur = NoState
  /\ uploads = <<>>
  /\ fed = 0
  /\ wk = IdlePool
  /\ results = <<>>
  /\ firstErr = 0
  /\ pushRet = "none"
  /\ up = IdleUp
  /\ puts = [k \in Keys |-> IF blobs[k] # 0 THEN 1 ELSE 0]
  /\ finalized = <<>>
  /\ okState = NoState
  /\ ul = IdleUl
  /\ pull = IdlePull
  /\ pw = IdlePullPool
  /\ lc = IdleCache
  /\ wt = IdleWatch

\* cache documents a project directory may hold: none listed, the two paths
\* as pushed, and one written on a case-sensitive system (mixed-case key)
CachedManifests ==
  { {},
    {<<FileName(p), HashOf(p)>> : p \in Paths},
    {<<CasedName(1), OtherThan(HashOf(1))>>, <<FileName(MaxPaths), HashOf(MaxPaths)>>} }

\* .portsy with cache.json holding content c, all of it on disk
CacheWith(c, denied) ==
  [IdleCache EXCEPT !.dir.cache = 1, !.ddir.cache = 1, !.data[1] = c, !.ddata[1] = c,
                    !.denied = denied]

\* a project directory and its .portsy as the cache commands may find them
InitCache ==
  /\ localFiles = [p \in Paths |-> 1]
  /\ EmptyRemote
  /\ goos \in {"linux", "windows"}
  /\ dest \in {EmptyDest, UsedDest(goos), StaleDest}
  /\ lc \in {IdleCache} \cup {CacheWith(Cut, FALSE)}
            \cup {CacheWith(Json(m, a), d) :
                    m \in CachedManifests, a \in {"", DefaultAlgo}, d \in BOOLEAN}
  /\ last = Last("none", NoId, NoState, "")
  /\ calls = 0
  /\ edits = 0
  /\ pushes = 0
  /\ cancelAt = ""
  /\ before = <<NoProject, [c \in CommitIds |-> NoCommit], [c \in CommitIds |-> NoState]>>
  /\ pushPc = "idle"
  /\ pushCommit = CommitMeta(NoId, 0, "")
  /\ cur = NoState
  /\ uploads = <<>>
  /\ fed = 0
  /\ wk = IdlePool
  /\ results = <<>>
  /\ firstErr = 0
  /\ pushRet = "none"
  /\ up = IdleUp
  /\ puts = [k \in Keys |-> 0]
  /\ finalized = <<>>
  /\ okState = NoState
  /\ ul = IdleUl
  /\ pull = IdlePull
  /\ pw = IdlePullPool
  /\ wt = IdleWatch

\* ---------------------------------------------------------------- environment
\* the user saves a project file with new content
EditFile(p, h) ==
  /\ edits < MaxEdits
  /\ localFiles[p] # h
  /\ localFiles' = [localFiles EXCEPT ![p] = h]
  /\ edits' = edits + 1
  /\ UNCHANGED <<blobs, storeVars, last, calls, pushVars>>
  /\ UNCHANGED <<puts, finalized, okState, ul, pullVars, cacheVars, watchVars>>

\* ---------------------------------------------------------------- API clients
\* a client (smokePush step 2) ensures the blob of one file
ClientUploadIfMissing(p) ==
  /\ localFiles[p] # 0
  /\ ~Exists(BuildKey(localFiles[p]))
  /\ \/ LET r == UploadIfMissing(blobs, localFiles, p, BuildKey(localFiles[p])) IN
          /\ blobs' = r[1]
          /\ puts' = Stored(puts, BuildKey(localFiles[p]), r[3])
     \/ UNCHANGED <<blobs, puts>>                           \* transport error
  /\ UNCHANGED <<localFiles, storeVars, last, calls, edits, pushVars>>
  /\ UNCHANGED <<finalized, okState, ul, pullVars, cacheVars, watchVars>>

\* MetaStore.BeginCommit(project, commit, state)
BeginCommit(c, ts) ==
  LET st == KeyedManifest(localFiles) IN
  /\ calls < MaxCalls
  /\ calls' = calls + 1
  /\ \/ /\ \E now \in Clock : BeginCommitWrite(c, ts, st, now)
        /\ last' = Last("BeginCommit", c, st, "")
     \/ /\ UNCHANGED storeVars                              \* b.Commit fails
        /\ last' = Last("BeginCommit", c, st, "rpc")
  /\ UNCHANGED <<localFiles, blobs, edits, pushVars>>
  /\ UNCHANGED <<puts, finalized, okState, ul, pullVars, cacheVars, watchVars>>

\* MetaStore.FinalizeCommit(project, commit, state, verify): the call itself
FinalizeCommitCall(c, ts) ==
  LET st == KeyedManifest(localFiles) IN
  /\ IF ~VerifyAll(st)
     THEN /\ UNCHANGED <<storeVars, finalized>>
          /\ last' = Last("FinalizeCommit", c, st, "verify")
     ELSE \/ /\ \E now \in Clock : FinalizeCommitTx(c, ts, st, now)
             /\ last' = Last("FinalizeCommit", c, st, "")
             /\ finalized' = Append(finalized, c)
          \/ /\ UNCHANGED <<storeVars, finalized>>           \* HeadObject fails
             /\ last' = Last("FinalizeCommit", c, st, "verify")
          \/ /\ UNCHANGED <<storeVars, finalized>>           \* RunTransaction fails
             /\ last' = Last("FinalizeCommit", c, st, "tx")
  /\ UNCHANGED <<localFiles, blobs, edits, pushVars>>
  /\ UNCHANGED <<puts, okState, ul, pullVars, cacheVars, watchVars>>

\* a FinalizeCommit that marks the commit final before it verifies the blobs
FinalizeCommitMarksFirst(c, ts) ==
  LET st == KeyedManifest(localFiles) IN
  /\ calls < MaxCalls
  /\ calls' = calls + 1
  /\ IF ~VerifyAll(st)
     THEN /\ \E now \in Clock :
               commits' = [commits EXCEPT ![c] = CommitMeta(c, Stamp(ts, now), "final")]
          /\ UNCHANGED <<projDoc, states, finalized>>
          /\ last' = Last("FinalizeCommit", c, st, "verify")
     ELSE \/ /\ \E now \in Clock : FinalizeCommitTx(c, ts, st, now)
             /\ last' = Last("FinalizeCommit", c, st, "")
             /\ finalized' = Append(finalized, c)
          \/ /\ UNCHANGED <<storeVars, finalized>>
             /\ last' = Last("FinalizeCommit", c, st, "verify")
          \/ /\ UNCHANGED <<storeVars, finalized>>
             /\ last' = Last("FinalizeCommit", c, st, "tx")
  /\ UNCHANGED <<localFiles, blobs, edits, pushVars>>
  /\ UNCHANGED <<puts, okState, ul, pullVars, cacheVars, watchVars>>

\* MetaStore.FinalizeCommit(project, commit, state, verify)
FinalizeCommit(c, ts) ==
  /\ calls < MaxCalls
  /\ calls' = calls + 1
  /\ FinalizeCommitCall(c, ts)

\* filepath.WalkDir(projectPath, fn) inside BuildManifest: the error it
\* returns for a root that is "ok" or "gone".  When Lstat or ReadDir of the
\* root fails, WalkDir hands the error to fn, and fn answers every walkErr
\* with nil, so the walk ends without an error and without an entry.
WalkDirErr(root) == FALSE

\* the project directory is removed, renamed or its volume goes away
RemoveRoot ==
  /\ lc.root = "ok"
  /\ localFiles' = [p \in Paths |-> 0]
  /\ lc' = [lc EXCEPT !.root = "gone"]
  /\ UNCHANGED <<blobs, storeVars, last, calls, edits, pushVars>>
  /\ UNCHANGED <<puts, finalized, okState, ul, pullVars, watchVars>>

\* ---------------------------------------------------------------- PushProject
\* <-ctx.Done() is ready
CtxDone == cancelAt # ""

\* step 0: BuildManifest(project.Path); the caller's commit carries a fresh
\* timestamp and no status
PushStart(c) ==
  /\ pushPc = "idle"
  /\ ~WalkDirErr(lc.root)                                   \* if err != nil { return err }
  /\ pushes < MaxPushes
  /\ pushes' = pushes + 1
  /\ pushPc' = "prev"
  /\ pushCommit' = CommitMeta(c, CallerTs(c), "")
  /\ cur' = BuildManifest(localFiles)
  /\ cancelAt' = ""
  /\ before' = <<projDoc, commits, states>>
  /\ pushRet' = "none"
  /\ UNCHANGED <<localFiles, blobs, storeVars, last, calls, edits,
                 uploads, fed, wk, results, firstErr, up>>
  /\ UNCHANGED <<puts, finalized, okState, ul, pullVars, cacheVars, watchVars>>

\* prevByPath[f.Path]
HasPrev(prev, path) == \E j \in DOMAIN prev.files : prev.files[j].path = path
PrevEntry(prev, path) ==
  prev.files[CHOOSE j \in DOMAIN prev.files : prev.files[j].path = path]

\* a decision that never carries a key forward
ClassifyNeverCarries(prev, f) ==
  IF ~prev.exists THEN "upload"
  ELSE IF HasPrev(prev, f.path)
       THEN IF PrevEntry(prev, f.path).hash # f.hash THEN "upload" ELSE "migrate"
       ELSE "upload"

\* step 2, per file: "upload", "carry" or "migrate"
Classify(prev, f) ==
  IF ~prev.exists THEN "upload"
  ELSE IF HasPrev(prev, f.path)
       THEN IF PrevEntry(prev, f.path).hash # f.hash THEN "upload"
            ELSE IF PrevEntry(prev, f.path).r2Key = BuildKey(f.hash) THEN "carry"
            ELSE "migrate"
       ELSE "upload"

\* the todo of file i (meaningful when the file is not carried forward)
Todo(prev, files, i) ==
  [idx |-> i, key |-> BuildKey(files[i].hash),
   fromKey |-> IF Classify(prev, files[i]) = "migrate"
               THEN PrevEntry(prev, files[i].path).r2Key ELSE NoKey]

\* uploads, in file order
DecideUploads(prev, files) ==
  SelectSeq([i \in DOMAIN files |-> Todo(prev, files, i)],
            LAMBDA t : Classify(prev, files[t.idx]) # "carry")

\* f.R2Key = pf.R2Key for the files carried forward
CarryForward(prev, files) ==
  [i \in DOMAIN files |->
     IF Classify(prev, files[i]) = "carry"
     THEN [files[i] EXCEPT !.r2Key = PrevEntry(prev, files[i].path).r2Key]
     ELSE files[i]]

\* steps 1 and 2: prev, _, _ := meta.GetLatestState (errors ignored), then
\* the decision loop
PushDecide ==
  /\ pushPc = "prev"
  /\ \E r \in GetLatestState(projDoc, commits, states) \cup {[kind |-> "error"]} :
       /\ CtxDone => r.kind = "error"
       /\ LET prev == IF r.kind = "found" THEN r.state ELSE NoState IN
          /\ uploads' = DecideUploads(prev, cur.files)
          /\ cur' = [cur EXCEPT !.files = CarryForward(prev, cur.files)]
  /\ pushPc' = "pool"
  /\ fed' = 0
  /\ results' = <<>>
  /\ firstErr' = 0
  /\ wk' = IdlePool
  /\ UNCHANGED <<localFiles, blobs, storeVars, last, calls, edits, pushes,
                 cancelAt, before, pushCommit, pushRet, up>>
  /\ UNCHANGED <<puts, finalized, okState, ul, pullVars, cacheVars, watchVars>>

\* feeder goroutine: jobs <- t, received by an idle worker
Feed(w) ==
  /\ pushPc = "pool"
  /\ fed < Len(uploads)
  /\ wk[w].st = "idle"
  /\ wk' = [wk EXCEPT ![w] = [st |-> "job", idx |-> uploads[fed + 1].idx,
                              key |-> uploads[fed + 1].key,
                              fromKey |-> uploads[fed + 1].fromKey, err |-> FALSE]]
  /\ fed' = fed + 1
  /\ UNCHANGED <<localFiles, blobs, storeVars, last, calls, edits, pushes,
                 cancelAt, before, pushPc, pushCommit, cur, uploads, results, firstErr, pushRet, up>>
  /\ UNCHANGED <<puts, finalized, okState, ul, pullVars, cacheVars, watchVars>>

\* a worker that uploads the local file for every job, migrations included
RunJobAlwaysUploads(bl, files, t, path) == UploadIfMissing(bl, files, path, t.key)

\* the store call of one job: <<new bucket, error?, object stored?>>
RunJob(bl, files, t, path) ==
  IF t.fromKey # NoKey /\ t.fromKey # t.key
  THEN CopyIfMissing(bl, t.fromKey, t.key)
  ELSE UploadIfMissing(bl, files, path, t.key)

\* worker body for one job: ctx check, then CopyIfMissing or UploadIfMissing
Work(w) ==
  /\ pushPc = "pool"
  /\ wk[w].st = "job"
  /\ \/ /\ CtxDone                                          \* err = ctx.Err()
        /\ wk' = [wk EXCEPT ![w].st = "res", ![w].err = TRUE]
        /\ UNCHANGED <<blobs, puts>>
     \/ /\ ~CtxDone
        /\ LET r == RunJob(blobs, localFiles, wk[w], cur.files[wk[w].idx].path) IN
           /\ blobs' = r[1]
           /\ puts' = Stored(puts, wk[w].key, r[3])
           /\ wk' = [wk EXCEPT ![w].st = "res", ![w].err = r[2]]
     \/ /\ ~CtxDone                                         \* transport error
        /\ wk' = [wk EXCEPT ![w].st = "res", ![w].err = TRUE]
        /\ UNCHANGED <<blobs, puts>>
  /\ UNCHANGED <<localFiles, storeVars, last, calls, edits, pushes,
                 cancelAt, before, pushPc, pushCommit, cur, uploads, fed, results, firstErr, pushRet, up>>
  /\ UNCHANGED <<finalized, okState, ul, pullVars, cacheVars, watchVars>>

\* a collect loop that keeps the error of the last result only
CollectLastErr(w) ==
  /\ pushPc = "pool"
  /\ wk[w].st = "res"
  /\ results' = Append(results, [idx |-> wk[w].idx, key |-> wk[w].key, err |-> wk[w].err])
  /\ firstErr' = (IF wk[w].err THEN wk[w].idx ELSE 0)
  /\ cur' = (IF wk[w].err THEN cur
             ELSE [cur EXCEPT !.files[wk[w].idx].r2Key = wk[w].key])
  /\ wk' = [wk EXCEPT ![w] = IdlePool[w]]
  /\ UNCHANGED <<localFiles, blobs, storeVars, last, calls, edits, pushes,
                 cancelAt, before, pushPc, pushCommit, uploads, fed, pushRet, up>>
  /\ UNCHANGED <<puts, finalized, okState, ul, pullVars, cacheVars, watchVars>>

\* collect loop: r := <-results
Collect(w) ==
  /\ pushPc = "pool"
  /\ wk[w].st = "res"
  /\ results' = Append(results, [idx |-> wk[w].idx, key |-> wk[w].key, err |-> wk[w].err])
  /\ IF wk[w].err /\ firstErr = 0
     THEN /\ firstErr' = wk[w].idx
          /\ UNCHANGED cur
     ELSE /\ cur' = [cur EXCEPT !.files[wk[w].idx].r2Key = wk[w].key]
          /\ UNCHANGED firstErr
  /\ wk' = [wk EXCEPT ![w] = IdlePool[w]]
  /\ UNCHANGED <<localFiles, blobs, storeVars, last, calls, edits, pushes,
                 cancelAt, before, pushPc, pushCommit, uploads, fed, pushRet, up>>
  /\ UNCHANGED <<puts, finalized, okState, ul, pullVars, cacheVars, watchVars>>

\* PushProject returns: locals are dropped
Return(ret) ==
  /\ pushPc' = "idle"
  /\ pushRet' = ret
  /\ cur' = NoState
  /\ uploads' = <<>>
  /\ fed' = 0
  /\ results' = <<>>
  /\ firstErr' = 0
  /\ wk' = IdlePool
  /\ okState' = (IF ret = "ok" THEN up.state ELSE NoState)
  /\ UNCHANGED <<cancelAt, before, pushCommit>>

\* after the collect loop: wg.Wait(); if firstErr != nil return it, else
\* step 4: return meta.UpsertLatestState(ctx, project.Name, cur, commit)
PoolDone ==
  /\ pushPc = "pool"
  /\ Len(results) = Len(uploads)
  /\ up.pc = "idle"
  /\ IF firstErr # 0
     THEN Return("err") /\ UNCHANGED up
     ELSE /\ pushPc' = "upsert"
          /\ up' = [pc |-> "header", commit |-> pushCommit, state |-> cur,
                    caller |-> "push"]
          /\ UNCHANGED <<cancelAt, before, pushCommit, poolVars, pushRet, okState>>
  /\ UNCHANGED <<localFiles, blobs, storeVars, last, calls, edits, pushes>>
  /\ UNCHANGED <<puts, finalized, ul, pullVars, cacheVars, watchVars>>

\* ---------------------------------------------------------------- UpsertLatestState
\* a client other than PushProject calls UpsertLatestState (the CLI selftest)
ClientUpsert(c) ==
  /\ calls < MaxCalls
  /\ calls' = calls + 1
  /\ up.pc = "idle"
  /\ up' = [pc |-> "header", commit |-> CommitMeta(c, CallerTs(c), ""),
            state |-> KeyedManifest(localFiles), caller |-> "client"]
  /\ last' = Last("UpsertLatestState", c, KeyedManifest(localFiles), "")
  /\ UNCHANGED <<localFiles, blobs, storeVars, edits, pushes,
                 cancelAt, before, pushPc, pushCommit, poolVars, pushRet>>
  /\ UNCHANGED <<puts, finalized, okState, ul, pullVars, cacheVars, watchVars>>

\* an UpsertLatestState that does not pass its context to the writes
UpCtxIgnored == FALSE

\* the context of the call is done (only PushProject's context is cancelled)
UpCtxDone == up.caller = "push" /\ CtxDone

\* UpsertLatestState returns to its caller
UpsertReturn(ret) ==
  /\ up' = IdleUp
  /\ IF up.caller = "push" THEN Return(ret)
     ELSE UNCHANGED <<cancelAt, before, pushPc, pushCommit, poolVars, pushRet, okState>>

\* the call goes on to its next write
UpsertGoto(pc) ==
  /\ up' = [up EXCEPT !.pc = pc]
  /\ UNCHANGED <<cancelAt, before, pushPc, pushCommit, poolVars, pushRet, okState>>

\* write 1: the project header (HEAD), merged
UpsertSetHeader ==
  /\ up.pc = "header"
  /\ \/ /\ ~UpCtxDone
        /\ UpsertHeader(up.commit.id, up.commit.timestamp)
        /\ last' = Last("UpsertHeader", up.commit.id, up.state, "")
        /\ UpsertGoto("commit")
     \/ /\ UNCHANGED projDoc
        /\ last' = Last("UpsertHeader", up.commit.id, up.state, "rpc")
        /\ UpsertReturn("err")
  /\ UNCHANGED <<localFiles, blobs, commits, states, calls, edits, pushes>>
  /\ UNCHANGED <<puts, finalized, ul, pullVars, cacheVars, watchVars>>

\* write 2: commits/<id>, the commit as the caller passed it
UpsertSetCommit ==
  /\ up.pc = "commit"
  /\ \/ /\ ~UpCtxDone
        /\ commits' = [commits EXCEPT ![up.commit.id] = up.commit]
        /\ last' = Last("UpsertCommit", up.commit.id, up.state, "")
        /\ UpsertGoto("state")
     \/ /\ UNCHANGED commits
        /\ last' = Last("UpsertCommit", up.commit.id, up.state, "rpc")
        /\ UpsertReturn("err")
  /\ UNCHANGED <<localFiles, blobs, projDoc, states, calls, edits, pushes>>
  /\ UNCHANGED <<puts, finalized, ul, pullVars, cacheVars, watchVars>>

\* write 3: states/<id>
UpsertSetState ==
  /\ up.pc = "state"
  /\ \/ /\ ~UpCtxDone
        /\ states' = [states EXCEPT ![up.commit.id] = up.state]
        /\ last' = Last("UpsertState", up.commit.id, up.state, "")
        /\ UpsertReturn("ok")
     \/ /\ UNCHANGED states
        /\ last' = Last("UpsertState", up.commit.id, up.state, "rpc")
        /\ UpsertReturn("err")
  /\ UNCHANGED <<localFiles, blobs, projDoc, commits, calls, edits, pushes>>
  /\ UNCHANGED <<puts, finalized, ul, pullVars, cacheVars, watchVars>>

\* ManifestFromState: path -> hash of a state, as a set of <<path, hash>>
ManifestFromState(st) ==
  {<<st.files[i].path, st.files[i].hash>> : i \in DOMAIN st.files}

\* main, case "push": after PushProject returned nil, BuildManifest(projectPath)
\* scans the project again and WriteCacheFromState saves that scan
MainPushWriteCache ==
  /\ pushPc = "idle"
  /\ pushRet = "ok"
  /\ ~lc.pushed
  /\ lc' = [lc EXCEPT !.pushed = TRUE,
                      !.manifest = ManifestFromState(BuildManifest(localFiles)),
                      !.state = okState]
  /\ UNCHANGED <<localFiles, blobs, storeVars, last, calls, edits, pushVars>>
  /\ UNCHANGED <<puts, finalized, okState, ul, pullVars, watchVars>>

\* the caller cancels the context of the running push
Cancel ==
  /\ pushPc # "idle"
  /\ ~CtxDone
  /\ cancelAt' = (IF pushPc = "upsert" THEN up.pc ELSE pushPc)
  /\ UNCHANGED before
  /\ UNCHANGED <<localFiles, blobs, storeVars, last, calls, edits, pushes,
                 pushPc, pushCommit, poolVars, pushRet, up>>
  /\ UNCHANGED <<puts, finalized, okState, ul, pullVars, cacheVars, watchVars>>

\* ---------------------------------------------------------------- UploadIfMissing, step by step
\* a client calls UploadIfMissing(local, key) for a file whose content names the key
UlCall(u, p) ==
  /\ ul[u].pc = "idle"
  /\ ul[u].n < MaxUlCalls
  /\ localFiles[p] # 0
  /\ ul' = [ul EXCEPT ![u] = [pc |-> "exists", path |-> p, key |-> BuildKey(localFiles[p]),
                              ret |-> "none", seen |-> Exists(BuildKey(localFiles[p])),
                              fault |-> FALSE, n |-> ul[u].n + 1]]
  /\ UNCHANGED <<localFiles, blobs, storeVars, last, calls, edits, pushVars>>
  /\ UNCHANGED <<puts, finalized, okState, pullVars, cacheVars, watchVars>>

\* exists, err := c.Exists(ctx, key); if err == nil && exists { return nil }
UlExists(u) ==
  /\ ul[u].pc = "exists"
  /\ \/ /\ Exists(ul[u].key)
        /\ ul' = [ul EXCEPT ![u].pc = "idle", ![u].ret = "ok"]
     \/ /\ ~Exists(ul[u].key)
        /\ ul' = [ul EXCEPT ![u].pc = "put"]
     \/ ul' = [ul EXCEPT ![u].pc = "put"]                   \* HeadObject fails
  /\ UNCHANGED <<localFiles, blobs, storeVars, last, calls, edits, pushVars>>
  /\ UNCHANGED <<puts, finalized, okState, pullVars, cacheVars, watchVars>>

\* _, err = c.UploadFileIfNoneMatch(ctx, local, key, "*"); 412 is success
UlPut(u) ==
  /\ ul[u].pc = "put"
  /\ \/ LET r == UploadFileIfNoneMatch(blobs, localFiles, ul[u].path, ul[u].key) IN
          /\ blobs' = r[1]
          /\ puts' = Stored(puts, ul[u].key, r[3])
          /\ ul' = [ul EXCEPT ![u].pc = "idle", ![u].ret = IF r[2] THEN "err" ELSE "ok"]
     \/ /\ UNCHANGED <<blobs, puts>>                        \* PutObject fails
        /\ ul' = [ul EXCEPT ![u].pc = "idle", ![u].ret = "err", ![u].fault = TRUE]
  /\ UNCHANGED <<localFiles, storeVars, last, calls, edits, pushVars>>
  /\ UNCHANGED <<finalized, okState, pullVars, cacheVars, watchVars>>

\* ---------------------------------------------------------------- PullProject
\* the directory entry os.Lstat(localPath) resolves to: the name as spelled,
\* or on a case-insensitive file system (Windows) the same path in another case
Found(d, os, p) ==
  IF d[FileName(p)] # 0 THEN FileName(p)
  ELSE IF os = "windows" /\ d[CasedName(p)] # 0 THEN CasedName(p)
  ELSE FileName(p)

\* MetaStore.GetStateByCommit: Get of commits/<id>, then of states/<id>
GetStateByCommit(cms, sts, c) ==
  IF cms[c] = NoCommit \/ sts[c] = NoState THEN {[kind |-> "error"]}
  ELSE {[kind |-> "found", state |-> sts[c], commit |-> cms[c]]}

\* step 1: resolve the target snapshot, MkdirAll(destPath); then the workers
\* and the feeder are started
PullStart(byHead, c, allowDelete) ==
  /\ pull.pc = "idle"
  /\ pushPc = "idle"
  /\ up.pc = "idle"
  /\ \E r \in (IF byHead THEN GetLatestState(projDoc, commits, states)
                          ELSE GetStateByCommit(commits, states, c))
               \cup {[kind |-> "error"]} :
       IF r.kind = "found"
       THEN pull' = [pc |-> "pool", head |-> byHead, target |-> r.state,
                     allowDelete |-> allowDelete, fed |-> 0,
                     feeder |-> IF Len(r.state.files) = 0 THEN "closed" ELSE "run",
                     got |-> 0, ret |-> "none", cancelled |-> FALSE, cut |-> FALSE,
                     cached |-> FALSE, manifest |-> {}, start |-> dest,
                     after |-> okState]
       ELSE pull' = [pull EXCEPT !.pc = "returned", !.ret = "err", !.head = byHead,
                                 !.allowDelete = allowDelete, !.start = dest,
                                 !.after = okState]
  /\ pw' = IdlePullPool
  /\ UNCHANGED <<localFiles, blobs, storeVars, last, calls, edits, pushVars>>
  /\ UNCHANGED <<puts, finalized, okState, ul, dest, goos, cacheVars, watchVars>>

\* feeder goroutine: jobs <- job{rf}, received by a worker waiting in range
\* jobs; close(jobs) follows the last send
PullFeed(w) ==
  /\ pull.feeder = "run"
  /\ pw[w].st = "idle"
  /\ pw' = [pw EXCEPT ![w] = [st |-> "job", idx |-> pull.fed + 1, err |-> "",
                              downloaded |-> FALSE]]
  /\ pull' = [pull EXCEPT !.fed = pull.fed + 1,
                          !.feeder = IF pull.fed + 1 = Len(pull.target.files)
                                     THEN "closed" ELSE "run"]
  /\ UNCHANGED <<localFiles, blobs, storeVars, last, calls, edits, pushVars>>
  /\ UNCHANGED <<puts, finalized, okState, ul, dest, goos, cacheVars, watchVars>>

\* feeder goroutine: case <-ctx.Done(): return (jobs is not closed)
PullFeederStop ==
  /\ pull.feeder = "run"
  /\ pull.cancelled
  /\ pull' = [pull EXCEPT !.feeder = "gone"]
  /\ UNCHANGED <<localFiles, blobs, storeVars, last, calls, edits, pushVars>>
  /\ UNCHANGED <<puts, finalized, okState, ul, dest, goos, pw, cacheVars, watchVars>>

\* worker: MkdirAll of the parent, Lstat and verify of the local file; when a
\* download is needed DownloadTo starts: MkdirAll, OpenFile(dst + ".part",
\* O_CREATE|O_TRUNC)
PullCheck(w) ==
  LET f == pull.target.files[pw[w].idx] IN
  /\ pw[w].st = "job"
  /\ \/ /\ dest[Found(dest, goos, f.path)] = f.hash        \* present and verified
        /\ pw' = [pw EXCEPT ![w].st = "res"]
        /\ UNCHANGED dest
     \/ /\ dest[Found(dest, goos, f.path)] # f.hash
        /\ dest' = [dest EXCEPT ![PartName(f.path)] = Truncated]
        /\ pw' = [pw EXCEPT ![w].st = "dl"]
     \/ /\ pw' = [pw EXCEPT ![w].st = "res", ![w].err = "open"]  \* MkdirAll or OpenFile fails
        /\ UNCHANGED dest
  /\ UNCHANGED <<localFiles, blobs, storeVars, last, calls, edits, pushVars>>
  /\ UNCHANGED <<puts, finalized, okState, ul, goos, pull, cacheVars, watchVars>>

\* key := rf.R2Key; if key == "" { key = r2.BuildKey(projectName, rf.Hash) }
PullKey(f) == IF f.r2Key = NoKey THEN BuildKey(f.hash) ELSE f.r2Key

\* DownloadTo succeeds: the object is written to the temp file, synced, closed
\* and renamed over dstPath (on Windows an entry of another case is the same
\* file and takes the new name)
DownloadOk(d, os, p, content) ==
  [d EXCEPT ![PartName(p)] = 0, ![FileName(p)] = content,
            ![CasedName(p)] = IF os = "windows" THEN 0 ELSE @]

\* a DownloadTo without the deferred cleanup
DownloadFailKeepsPart(d, p) == d

\* DownloadTo fails after the temp file was created: the deferred
\* tf.Close(); os.Remove(tmp) runs
DownloadFail(d, p) == [d EXCEPT ![PartName(p)] = 0]

\* worker: the rest of DownloadTo, then verify after download
PullDownload(w) ==
  LET f == pull.target.files[pw[w].idx] IN
  /\ pw[w].st = "dl"
  /\ \/ /\ ~pull.cancelled
        /\ blobs[PullKey(f)] # 0
        /\ dest' = DownloadOk(dest, goos, f.path, blobs[PullKey(f)])
        /\ pw' = [pw EXCEPT ![w].st = "res",
                            ![w].err = IF blobs[PullKey(f)] = f.hash THEN "" ELSE "verify",
                            ![w].downloaded = (blobs[PullKey(f)] = f.hash)]
        /\ UNCHANGED pull
     \/ /\ ~pull.cancelled                 \* key not found, transfer, sync, close, rename
        /\ dest' = DownloadFail(dest, f.path)
        /\ pw' = [pw EXCEPT ![w].st = "res", ![w].err = "download"]
        /\ UNCHANGED pull
     \/ /\ pull.cancelled                  \* the error wraps context.Canceled
        /\ dest' = DownloadFail(dest, f.path)
        /\ pw' = [pw EXCEPT ![w].st = "res", ![w].err = "canceled"]
        /\ pull' = [pull EXCEPT !.cut = TRUE]
  /\ UNCHANGED <<localFiles, blobs, storeVars, last, calls, edits, pushVars>>
  /\ UNCHANGED <<puts, finalized, okState, ul, goos, cacheVars, watchVars>>

\* collect loop: d := <-dones; an error other than context.Canceled is
\* returned at once, anything else is counted
PullCollect(w) ==
  /\ pull.pc = "pool"
  /\ pw[w].st = "res"
  /\ pull' = (IF pw[w].err \notin {"", "canceled"}
              THEN [pull EXCEPT !.pc = "returned", !.ret = "err"]
              ELSE [pull EXCEPT !.got = pull.got + 1])
  /\ pw' = [pw EXCEPT ![w] = IdlePullPool[w]]
  /\ UNCHANGED <<localFiles, blobs, storeVars, last, calls, edits, pushVars>>
  /\ UNCHANGED <<puts, finalized, okState, ul, dest, goos, cacheVars, watchVars>>

\* step 3, the walk of destPath: every file whose path relative to destPath
\* is not a key of targetByPath is removed; the directory .portsy is skipped
DeletePass(d, st) ==
  [n \in DestNames |->
     IF n = CacheName \/ (\E i \in DOMAIN st.files : n = FileName(st.files[i].path))
     THEN d[n] ELSE 0]

\* a pull that runs the delete pass whatever allowDelete says
DeletedAlways(d, st, allow) == DeletePass(d, st)

\* if allowDelete { filepath.Walk(...) }
Deleted(d, st, allow) == IF allow THEN DeletePass(d, st) ELSE d

\* EnsureAbletonFolderIcon (Windows build): desktop.ini is written when the
\* project's icon file exists
EnsureAbletonFolderIcon(d, os) ==
  IF os = "windows" /\ d[IconName] # 0 THEN [d EXCEPT ![IniName] = 1] ELSE d

\* a pull whose delete pass starts as soon as one result was collected
PullFinishEarly ==
  /\ pull.pc = "pool"
  /\ pull.got >= 1
  /\ dest' = EnsureAbletonFolderIcon(Deleted(dest, pull.target, pull.allowDelete), goos)
  /\ pull' = [pull EXCEPT !.pc = "returned", !.ret = "ok"]
  /\ UNCHANGED <<localFiles, blobs, storeVars, last, calls, edits, pushVars>>
  /\ UNCHANGED <<puts, finalized, okState, ul, goos, pw, cacheVars, watchVars>>

\* after the collect loop: wg.Wait(), the delete pass, the folder icon, return
PullFinish ==
  /\ pull.pc = "pool"
  /\ pull.got = Len(pull.target.files)
  /\ pull.feeder = "closed"
  /\ \A w \in 1..NumWorkers : pw[w].st = "idle"
  /\ dest' = EnsureAbletonFolderIcon(Deleted(dest, pull.target, pull.allowDelete), goos)
  /\ pull' = [pull EXCEPT !.pc = "returned", !.ret = "ok"]
  /\ UNCHANGED <<localFiles, blobs, storeVars, last, calls, edits, pushVars>>
  /\ UNCHANGED <<puts, finalized, okState, ul, goos, pw, cacheVars, watchVars>>

\* the caller cancels the context of the running pull
PullCancel ==
  /\ pull.pc = "pool"
  /\ ~pull.cancelled
  /\ pull' = [pull EXCEPT !.cancelled = TRUE]
  /\ UNCHANGED <<localFiles, blobs, storeVars, last, calls, edits, pushVars>>
  /\ UNCHANGED <<puts, finalized, okState, ul, dest, goos, pw, cacheVars, watchVars>>

\* BuildManifest(destPath) as a set of <<path, hash>>: the walk skips .portsy,
\* "Ableton Project Info" and desktop.ini, and lowercases paths on Windows
DestManifest(d, os) ==
  LET tracked == {FileName(p) : p \in Paths} \cup {CasedName(p) : p \in Paths}
                 \cup {PartName(p) : p \in Paths} \cup {StrayName}
      rel(n) == IF os = "windows" /\ n[1] = "File" THEN FileName(n[2]) ELSE n
  IN  {<<rel(n), d[n]>> : n \in {m \in tracked : d[m] # 0}}

\* main, case "pull": after PullProject returned nil, BuildManifest(dst) and
\* WriteCacheFromState(dst, ps, algo); the manifest saved is that of the scan
MainWriteCache ==
  /\ pull.pc = "returned"
  /\ pull.ret = "ok"
  /\ ~pull.cached
  /\ dest' = [dest EXCEPT ![CacheName] = FreshCache]
  /\ pull' = [pull EXCEPT !.cached = TRUE, !.manifest = DestManifest(dest, goos)]
  /\ UNCHANGED <<localFiles, blobs, storeVars, last, calls, edits, pushVars>>
  /\ UNCHANGED <<puts, finalized, okState, ul, goos, pw, cacheVars, watchVars>>

\* ---------------------------------------------------------------- LocalCache
\* normalizeKey: forward slashes, and lowerASCII on Windows
normalizeKey(os, n) == IF os = "windows" /\ n[1] = "File" THEN FileName(n[2]) ELSE n

ManifestKeys(m) == {e[1] : e \in m}
Lookup(m, k) == (CHOOSE e \in m : e[1] = k)[2]

\* normalizeManifestKeys: the manifest as it is off Windows; on Windows every
\* key normalized, and of two keys that collide the one written last wins
\* (map iteration order)
normalizeManifestKeys(os, m) ==
  IF m = {} \/ os # "windows" THEN {m}
  ELSE LET all == {<<normalizeKey(os, e[1]), e[2]>> : e \in m}
       IN  {r \in SUBSET all :
              /\ ManifestKeys(r) = ManifestKeys(all)
              /\ \A a, b \in r : a[1] = b[1] => a = b}

\* BuildManifest(projectPath) followed by ManifestFromState
ScanManifest(d, os) == {<<normalizeKey(os, e[1]), e[2]>> : e \in DestManifest(d, os)}

\* LoadLocalCache: the outcomes for a cache.json with this content
LoadLocalCache(os, content, denied) ==
  IF content.kind = "none"
  THEN {[ret |-> "cache", err |-> FALSE, m |-> {}, algo |-> DefaultAlgo, bad |-> FALSE]}
  ELSE IF denied                           \* os.ReadFile fails, not ErrNotExist
  THEN {[ret |-> "nil", err |-> TRUE, m |-> {}, algo |-> "", bad |-> FALSE]}
  ELSE IF content.kind = "cut"             \* json.Unmarshal fails
  THEN {[ret |-> "cache", err |-> FALSE, m |-> {}, algo |-> DefaultAlgo, bad |-> b] :
          b \in BOOLEAN}                   \* preserveCorruptCache is best effort
  ELSE {[ret |-> "cache", err |-> FALSE, m |-> n,
         algo |-> IF content.algo = "" THEN DefaultAlgo ELSE content.algo,
         bad |-> FALSE] : n \in normalizeManifestKeys(os, content.m)}

\* byte order of the path strings: "Song<p>.als" < "notes.txt" < "song<p>.als"
\* < "song<p>.als.part" < "song<p+1>.als"
PathRank(n) ==
  IF n[1] = "File" THEN n[2]
  ELSE IF n[1] = "stray" THEN MaxPaths + 1
  ELSE IF n[1] = "file" THEN MaxPaths + 2 * n[2]
  ELSE MaxPaths + 2 * n[2] + 1

\* a diff that lists every cached path as deleted
DiffChangesNoSeen(os, current, cached) ==
  {[Path |-> e[1], Type |-> "deleted", src |-> e[1]] : e \in cached}

\* DiffManifests, the two loops: the changes appended, one per source key
DiffChanges(os, current, cached) ==
  LET seen == {normalizeKey(os, e[1]) : e \in current}
      changed == {e \in current :
                    \/ normalizeKey(os, e[1]) \notin ManifestKeys(cached)
                    \/ Lookup(cached, normalizeKey(os, e[1])) # e[2]}
  IN  {[Path |-> normalizeKey(os, e[1]),
        Type |-> IF normalizeKey(os, e[1]) \notin ManifestKeys(cached)
                 THEN "added" ELSE "modified",
        src  |-> e[1]] : e \in changed}
      \cup
      {[Path |-> e[1], Type |-> "deleted", src |-> e[1]] :
         e \in {x \in cached : x[1] \notin seen}}

\* sort.Slice(changes, Path <): the changes in path order
RECURSIVE SortByPath(_)
SortByPath(S) ==
  IF S = {} THEN <<>>
  ELSE LET x == CHOOSE x \in S : \A y \in S : PathRank(x.Path) <= PathRank(y.Path)
       IN  <<x>> \o SortByPath(S \ {x})

DiffManifests(os, current, cached) ==
  LET s == SortByPath(DiffChanges(os, current, cached))
  IN  [i \in DOMAIN s |-> [Path |-> s[i].Path, Type |-> s[i].Type]]

\* what a reader of .portsy/cache.json gets
ReadCache(c) == IF c.dir.cache = 0 THEN NoFile ELSE c.data[c.dir.cache]

CacheFrame ==
  /\ UNCHANGED <<localFiles, blobs, storeVars, last, calls, pushVars>>
  /\ UNCHANGED <<puts, finalized, okState, ul, goos, pull, pw, watchVars>>

\* a file of the project directory is saved with new content
EditDest(p, h) ==
  /\ edits < MaxEdits
  /\ dest[Found(dest, goos, p)] # h
  /\ dest' = [dest EXCEPT ![Found(dest, goos, p)] = h]
  /\ edits' = edits + 1
  /\ UNCHANGED lc
  /\ CacheFrame

\* WriteCacheFromState(projectPath, BuildManifest(projectPath), algo) up to
\* SaveLocalCache's OpenFile(tmp, O_CREATE|O_TRUNC|O_WRONLY)
SaveOpen ==
  LET ino == IF lc.dir.tmp # 0 THEN lc.dir.tmp ELSE lc.saves + 2 IN
  /\ lc.save.pc = "idle"
  /\ lc.saves < MaxSaves
  /\ \/ lc' = [lc EXCEPT !.saves = lc.saves + 1,
                         !.dir.tmp = ino,
                         !.data[ino] = Cut,
                         !.ddata[ino] = IF lc.dir.tmp # 0 THEN @ ELSE Cut,
                         !.save = [pc |-> "write", ino |-> ino,
                                   new |-> Json(ScanManifest(dest, goos), DefaultAlgo),
                                   prev |-> ReadCache(lc), ret |-> "none"]]
     \/ lc' = [lc EXCEPT !.saves = lc.saves + 1,       \* MkdirAll or OpenFile fails
                         !.save.ret = "err"]
  /\ UNCHANGED <<dest, edits>>
  /\ CacheFrame

\* f.Write(b); f.Close()
SaveWrite ==
  /\ lc.save.pc = "write"
  /\ \/ lc' = [lc EXCEPT !.data[lc.save.ino] = lc.save.new, !.save.pc = "rename"]
     \/ lc' = [lc EXCEPT !.save.pc = "idle", !.save.ret = "err"]   \* werr or cerr
  /\ UNCHANGED <<dest, edits>>
  /\ CacheFrame

\* os.Rename(tmp, p)
SaveRename ==
  /\ lc.save.pc = "rename"
  /\ \/ lc' = [lc EXCEPT !.dir = [cache |-> lc.save.ino, tmp |-> 0],
                         !.save.pc = "dirsync"]
     \/ lc' = [lc EXCEPT !.save.pc = "idle", !.save.ret = "err"]
  /\ UNCHANGED <<dest, edits>>
  /\ CacheFrame

\* best effort: os.Open of the directory, dir.Sync(), dir.Close(); return nil
SaveDirSync ==
  /\ lc.save.pc = "dirsync"
  /\ \/ lc' = [lc EXCEPT !.ddir = lc.dir, !.save.pc = "idle", !.save.ret = "ok"]
     \/ lc' = [lc EXCEPT !.save.pc = "idle", !.save.ret = "ok"]
  /\ UNCHANGED <<dest, edits>>
  /\ CacheFrame

\* the operating system writes back what no fsync has forced: the bytes of a
\* file, in whole or in part, or the directory
Writeback ==
  /\ \/ \E i \in Inodes :
          /\ lc.data[i] # NoFile
          /\ lc.ddata[i] # lc.data[i]
          /\ \E c \in {lc.data[i], Cut} :
               /\ c # lc.ddata[i]
               /\ lc' = [lc EXCEPT !.ddata[i] = c]
     \/ /\ lc.ddir # lc.dir
        /\ lc' = [lc EXCEPT !.ddir = lc.dir]
  /\ UNCHANGED <<dest, edits>>
  /\ CacheFrame

\* the machine stops: what was not written back is lost, a SaveLocalCache in
\* progress ends where it was
Crash ==
  /\ lc.crashes < MaxCrashes
  /\ lc' = [lc EXCEPT !.crashes = lc.crashes + 1,
                      !.dir = lc.ddir,
                      !.data = lc.ddata,
                      !.save.pc = "idle",
                      !.save.ret = IF lc.save.pc = "idle" THEN @ ELSE "crash"]
  /\ UNCHANGED <<dest, edits>>
  /\ CacheFrame

\* main, case "diff", and ChangedProjectsSinceCache: BuildManifest,
\* ManifestFromState, lc, _ := LoadLocalCache(pp), DiffManifests(cur, lc.Manifest)
MainDiff ==
  /\ lc.save.pc = "idle"
  /\ \E out \in LoadLocalCache(goos, ReadCache(lc), lc.denied) :
       lc' = [lc EXCEPT
                !.bad = IF out.bad THEN ReadCache(lc) ELSE @,
                !.load = [ret |-> out.ret, err |-> out.err, m |-> out.m,
                          algo |-> out.algo, cur |-> ScanManifest(dest, goos),
                          diff |-> IF out.ret = "nil" THEN <<>>
                                   ELSE DiffManifests(goos, ScanManifest(dest, goos), out.m)]]
  /\ UNCHANGED <<dest, edits>>
  /\ CacheFrame

\* ---------------------------------------------------------------- watcher
WatchFrame ==
  /\ UNCHANGED <<localFiles, blobs, storeVars, last, calls, edits, pushVars>>
  /\ UNCHANGED <<puts, finalized, okState, ul, pullVars, cacheVars>>

\* the watchers whose goroutine runs
Running == {i \in 1..MaxStarts : wt.w[i].pc \notin {"off", "exited"}}

\* the state of a watcher's loop: Idle, Debouncing, Stabilizing (or inside
\* the callback)
LoopState(x) ==
  IF x.pc = "poll" THEN "stabilizing"
  ELSE IF x.pc = "callback" THEN "callback"
  ELSE IF x.tmr # "nil" THEN "debouncing"
  ELSE "idle"

\* watchCancel(): the context of fleet h is done, and with it the contexts
\* derived from it for its per-project watchers (h = 0: nothing to cancel)
Cancelled(x, h) ==
  [x EXCEPT
     !.fleet = [i \in 1..MaxStarts |->
                  IF i = h THEN [x.fleet[i] EXCEPT !.cancelled = TRUE] ELSE x.fleet[i]],
     !.w = [i \in 1..MaxStarts |->
              IF i = h /\ ~x.w[i].cancelled
              THEN [x.w[i] EXCEPT !.cancelled = TRUE, !.at = LoopState(x.w[i])]
              ELSE x.w[i]]]

\* ctx, cancel := context.WithCancel(a.ctx); watchCancel = cancel; go
\* WatchAllProjects(ctx, ...): fleet n runs, and its initial scan starts a
\* WatchProjectALS for every directory that holds a session file
Started(x, n) ==
  [x EXCEPT !.starts = n, !.handle = n, !.op = "start",
            !.fleet[n] = [IdleFleet EXCEPT !.pc = "run", !.hasQ = (x.qdir = "als")],
            !.w[n] = [IdleWatcher EXCEPT !.pc = "select"]]

\* App.StartWatcherAll, called alone: the context of the previous fleet is
\* cancelled; WatchAllProjects starts and its initial scan starts one
\* WatchProjectALS for the project
StartWatcherAll ==
  /\ wt.starts < MaxStarts
  /\ \A c \in 1..MaxCallers : wt.call[c] = "idle"
  /\ wt' = Started(Cancelled(wt, wt.handle), wt.starts + 1)
  /\ WatchFrame

\* the first start of the watcher
StartWatcherFirst == wt.starts = 0 /\ StartWatcherAll

\* WatchAllProjects, rescan: start(p) for every project found; a path that
\* is in watchers already gets no second goroutine
Rescan ==
  /\ wt.starts > 0
  /\ wt.rescans < MaxRescans
  /\ wt' = [wt EXCEPT !.rescans = wt.rescans + 1]
  /\ WatchFrame

\* the session file is saved: new size and mtime, and fsnotify has a Write
\* event for every watcher of the project
FileWrite ==
  /\ wt.writes < MaxWrites
  /\ ~wt.locked
  /\ wt' = [wt EXCEPT
              !.ver = wt.ver + 1,
              !.writes = wt.writes + 1,
              !.w = [i \in 1..MaxStarts |->
                       IF i \in Running
                       THEN [wt.w[i] EXCEPT
                               !.q = @ + 1,
                               !.covered = FALSE,
                               !.late = @ \/ wt.w[i].tmr = "fired"
                                          \/ wt.w[i].pc \in {"poll", "callback"}
                                          \/ wt.w[i].emitted > 0]
                       ELSE wt.w[i]]]
  /\ WatchFrame

\* another program opens the session file with a lock and changes nothing
FileLock ==
  /\ ~wt.locked
  /\ wt.locks < MaxLocks
  /\ wt' = [wt EXCEPT !.locked = TRUE, !.locks = wt.locks + 1]
  /\ WatchFrame

FileUnlock ==
  /\ wt.locked
  /\ wt' = [wt EXCEPT !.locked = FALSE]
  /\ WatchFrame

\* the runtime timer expires: its value waits in tmrC
TimerFire(i) ==
  /\ wt.w[i].tmr = "armed"
  /\ wt' = [wt EXCEPT !.w[i].tmr = "fired"]
  /\ WatchFrame

\* a loop that stops its timer on ctx.Done() and goes on selecting
WatchDoneStays(i) ==
  /\ wt.w[i].pc = "select"
  /\ wt.w[i].cancelled
  /\ wt.w[i].tmr # "nil"
  /\ wt' = [wt EXCEPT !.w[i].tmr = "nil"]
  /\ WatchFrame

\* select, case <-ctx.Done(): stopTimer(); return ctx.Err()
WatchDone(i) ==
  /\ wt.w[i].pc = "select"
  /\ wt.w[i].cancelled
  /\ wt' = [wt EXCEPT !.w[i].pc = "exited", !.w[i].tmr = "nil", !.w[i].closed = TRUE]
  /\ WatchFrame

\* select, case ev := <-w.Events, a qualifying event: schedule() (a new timer,
\* or Stop, drain of tmrC and Reset)
WatchEvent(i) ==
  /\ wt.w[i].pc = "select"
  /\ wt.w[i].q > 0
  /\ wt' = [wt EXCEPT !.w[i].q = @ - 1, !.w[i].tmr = "armed", !.w[i].covered = TRUE]
  /\ WatchFrame

\* select, case <-tmrC: stopTimer(); fireIfStable() begins waitFileStable
WatchTimer(i) ==
  /\ wt.w[i].pc = "select"
  /\ wt.w[i].tmr = "fired"
  /\ wt' = [wt EXCEPT !.w[i].tmr = "nil", !.w[i].pc = "poll", !.w[i].polls = 0,
                      !.w[i].last = NoSize, !.w[i].prevOk = FALSE]
  /\ WatchFrame

\* waitFileStable, one turn of its loop: os.Stat, os.Open, the comparison
\* with lastSize and lastMod; after the last attempt "file not stable"; on
\* nil fireIfStable calls onSave
WaitPoll(i) ==
  /\ wt.w[i].pc = "poll"
  /\ IF wt.w[i].polls = StableAttempts
     THEN wt' = [wt EXCEPT !.w[i].pc = "select"]
     ELSE IF wt.locked
     THEN wt' = [wt EXCEPT !.w[i].polls = @ + 1, !.w[i].prevOk = FALSE]
     ELSE IF wt.ver = wt.w[i].last
     THEN wt' = [wt EXCEPT !.w[i].pc = "callback", !.w[i].emitted = @ + 1,
                           !.w[i].pairOk = wt.w[i].prevOk]
     ELSE wt' = [wt EXCEPT !.w[i].polls = @ + 1, !.w[i].last = wt.ver,
                           !.w[i].prevOk = TRUE]
  /\ WatchFrame

\* onSave returns
CallbackReturn(i) ==
  /\ wt.w[i].pc = "callback"
  /\ wt' = [wt EXCEPT !.w[i].pc = "select"]
  /\ WatchFrame

\* App.StopWatcherAll: if watchCancel != nil { watchCancel(); watchCancel = nil }
StopWatcherAll ==
  /\ wt.stops < MaxStops
  /\ wt' = [Cancelled(wt, wt.handle) EXCEPT !.handle = 0, !.stops = @ + 1, !.op = "stop"]
  /\ WatchFrame

\* App.StartWatcherAll of UI call c, first statement:
\* if watchCancel != nil { watchCancel(); watchCancel = nil }
StartCancelOld(c) ==
  /\ wt.call[c] = "idle"
  /\ wt.starts + Cardinality({d \in 1..MaxCallers : wt.call[d] = "assign"}) < MaxStarts
  /\ wt' = [Cancelled(wt, wt.handle) EXCEPT !.handle = 0, !.call[c] = "assign"]
  /\ WatchFrame

\* App.StartWatcherAll of UI call c, the rest: the new context, its cancel
\* function stored in watchCancel, the goroutine of WatchAllProjects
StartAssign(c) ==
  /\ wt.call[c] = "assign"
  /\ wt' = [Started(wt, wt.starts + 1) EXCEPT !.call[c] = "idle"]
  /\ WatchFrame

\* WatchAllProjects, select, case <-ctx.Done(): cancel() of every per-project
\* watcher, return ctx.Err(); the deferred w.Close() runs.  The rescan timer
\* is left as it is.
FleetDone(i) ==
  /\ wt.fleet[i].pc = "run"
  /\ wt.fleet[i].cancelled
  /\ wt' = [wt EXCEPT !.fleet[i].pc = "exited", !.fleet[i].closed = TRUE]
  /\ WatchFrame

\* the fsnotify events of the root reach the fleets whose watcher is open
RootEvents(x, e) ==
  [x EXCEPT !.fleet = [i \in 1..MaxStarts |->
                         IF x.fleet[i].pc = "run"
                         THEN [x.fleet[i] EXCEPT !.ev = Append(@, e)]
                         ELSE x.fleet[i]]]

\* a directory appears under the root, empty or already holding a session
\* file (copied or moved in): Create event for root/<dir>
DirCreate(withAls) ==
  /\ wt.qdir = "none"
  /\ wt' = [RootEvents(wt, "create") EXCEPT !.qdir = IF withAls THEN "als" ELSE "empty"]
  /\ WatchFrame

\* a session file is saved into the directory that exists under the root.
\* Only the root itself is added to the fsnotify watcher, and a watch is not
\* recursive: the root's watcher gets no event for root/<dir>/<file>.als, or,
\* where the platform reports the directory's own change, a Write event for
\* root/<dir>.
AlsSave ==
  /\ wt.qdir = "empty"
  /\ \/ wt' = [wt EXCEPT !.qdir = "als"]
     \/ wt' = [RootEvents(wt, "write") EXCEPT !.qdir = "als"]
  /\ WatchFrame

\* WatchAllProjects, select, case ev := <-w.Events: rescan() for a Create or
\* Rename of an entry of the root (the timer is stopped and set again);
\* nothing for another event
RootEvent(i) ==
  /\ wt.fleet[i].pc = "run"
  /\ wt.fleet[i].ev # <<>>
  /\ wt' = [wt EXCEPT !.fleet[i].ev = Tail(@),
                      !.fleet[i].rescanT = IF Head(wt.fleet[i].ev) = "create"
                                           THEN "armed" ELSE @]
  /\ WatchFrame

\* the function of time.AfterFunc(300ms) runs: findProjectsUnderRoot, then
\* start(p) for every project found; a directory without a top-level
\* session file is not a project, one that is in watchers is left alone
RescanFire(i) ==
  /\ wt.fleet[i].rescanT = "armed"
  /\ wt' = [wt EXCEPT !.fleet[i].rescanT = "nil",
                      !.fleet[i].hasQ = @ \/ wt.qdir = "als"]
  /\ WatchFrame

\* a commit script: FinalizeCommit called again and again on one project
FinalizeSeq(c) ==
  /\ Len(finalized) < MaxFinalizes
  /\ calls' = calls
  /\ FinalizeCommitCall(c, CallerTs(c))

\* MetaStore clients: the metadata operations called in any order
NextStore ==
  \/ \E p \in Paths, h \in Hashes : EditFile(p, h)
  \/ \E p \in Paths : ClientUploadIfMissing(p)
  \/ \E c \in CommitIds : BeginCommit(c, CallerTs(c))
  \/ \E c \in CommitIds : FinalizeCommit(c, CallerTs(c))
  \/ \E c \in CommitIds : ClientUpsert(c)
  \/ UpsertSetHeader
  \/ UpsertSetCommit
  \/ UpsertSetState

SpecStore == Init /\ [][NextStore]_vars

\* PushProject calls on a project whose files are edited meanwhile
NextPush ==
  \/ \E p \in Paths, h \in Hashes : EditFile(p, h)
  \/ \E c \in CommitIds : PushStart(c)
  \/ PushDecide
  \/ \E w \in 1..NumWorkers : Feed(w)
  \/ \E w \in 1..NumWorkers : Work(w)
  \/ \E w \in 1..NumWorkers : Collect(w)
  \/ PoolDone
  \/ UpsertSetHeader
  \/ UpsertSetCommit
  \/ UpsertSetState
  \/ Cancel

SpecPush == Init /\ [][NextPush]_vars

\* PushProject calls on a project whose directory can disappear
NextScan ==
  \/ RemoveRoot
  \/ \E c \in CommitIds : PushStart(c)
  \/ PushDecide
  \/ \E w \in 1..NumWorkers : Feed(w)
  \/ \E w \in 1..NumWorkers : Work(w)
  \/ \E w \in 1..NumWorkers : Collect(w)
  \/ PoolDone
  \/ UpsertSetHeader
  \/ UpsertSetCommit
  \/ UpsertSetState

SpecScan == Init /\ [][NextScan]_vars

\* the CLI push: PushProject, then main's rewrite of the LocalCache
NextPushCache ==
  \/ \E p \in Paths, h \in Hashes : EditFile(p, h)
  \/ \E c \in CommitIds : PushStart(c)
  \/ PushDecide
  \/ \E w \in 1..NumWorkers : Feed(w)
  \/ \E w \in 1..NumWorkers : Work(w)
  \/ \E w \in 1..NumWorkers : Collect(w)
  \/ PoolDone
  \/ UpsertSetHeader
  \/ UpsertSetCommit
  \/ UpsertSetState
  \/ Cancel
  \/ MainPushWriteCache

SpecPushCache == Init /\ [][NextPushCache]_vars

\* the LocalCache of one project directory: saves, edits of the project
\* files, write-back and a crash
NextCache ==
  \/ \E p \in Paths, h \in Hashes : EditDest(p, h)
  \/ SaveOpen
  \/ SaveWrite
  \/ SaveRename
  \/ SaveDirSync
  \/ Writeback
  \/ Crash

SpecCache == InitCache /\ [][NextCache]_vars

\* the diff command on a project directory whose cache is saved, loaded and
\* compared with a scan while the project files are edited
NextDiff ==
  \/ \E p \in Paths, h \in Hashes : EditDest(p, h)
  \/ SaveOpen
  \/ SaveWrite
  \/ SaveRename
  \/ SaveDirSync
  \/ MainDiff

SpecDiff == InitCache /\ [][NextDiff]_vars

\* one WatchProjectALS on a project whose session file is saved and locked
NextWatch ==
  \/ StartWatcherFirst
  \/ FileWrite
  \/ FileLock
  \/ FileUnlock
  \/ \E i \in 1..MaxStarts : TimerFire(i)
  \/ \E i \in 1..MaxStarts : WatchEvent(i)
  \/ \E i \in 1..MaxStarts : WatchTimer(i)
  \/ \E i \in 1..MaxStarts : WaitPoll(i)
  \/ \E i \in 1..MaxStarts : CallbackReturn(i)

SpecWatch == Init /\ [][NextWatch]_vars

\* the fleet watcher of the application, started and started again
NextFleet ==
  \/ StartWatcherAll
  \/ Rescan
  \/ FileWrite
  \/ \E i \in 1..MaxStarts : TimerFire(i)
  \/ \E i \in 1..MaxStarts : WatchDone(i)
  \/ \E i \in 1..MaxStarts : WatchEvent(i)
  \/ \E i \in 1..MaxStarts : WatchTimer(i)
  \/ \E i \in 1..MaxStarts : WaitPoll(i)
  \/ \E i \in 1..MaxStarts : CallbackReturn(i)

SpecFleet == Init /\ [][NextFleet]_vars

\* a fleet that is started and then stopped while the session file is saved
\* and locked
NextStop ==
  \/ StartWatcherFirst
  \/ StopWatcherAll
  \/ FileWrite
  \/ FileLock
  \/ FileUnlock
  \/ \E i \in 1..MaxStarts :
       \/ TimerFire(i)
       \/ WatchDone(i)
       \/ WatchEvent(i)
       \/ WatchTimer(i)
       \/ WaitPoll(i)
       \/ CallbackReturn(i)
       \/ FleetDone(i)

\* every goroutine keeps running: a select whose ctx.Done() case stays ready
\* takes it, waitFileStable goes through its attempts, and the callback
\* returns
StopFairness ==
  \A i \in 1..MaxStarts :
    /\ WF_vars(WatchDone(i))
    /\ WF_vars(FleetDone(i))
    /\ WF_vars(WaitPoll(i))
    /\ WF_vars(CallbackReturn(i))

SpecStop == Init /\ [][NextStop]_vars /\ StopFairness

\* a running fleet while directories appear under the root and session files
\* are saved
NextRoot ==
  \/ StartWatcherFirst
  \/ \E withAls \in BOOLEAN : DirCreate(withAls)
  \/ AlsSave
  \/ FileWrite
  \/ \E i \in 1..MaxStarts :
       \/ RootEvent(i)
       \/ RescanFire(i)
       \/ TimerFire(i)
       \/ WatchEvent(i)
       \/ WatchTimer(i)
       \/ WaitPoll(i)
       \/ CallbackReturn(i)

\* the event loop of WatchAllProjects keeps receiving, and the runtime runs
\* the function of a timer that is set
RootFairness ==
  \A i \in 1..MaxStarts : WF_vars(RootEvent(i)) /\ WF_vars(RescanFire(i))

SpecRoot == Init /\ [][NextRoot]_vars /\ RootFairness

\* UI calls of StartWatcherAll and StopWatcherAll that overlap
NextHandle ==
  \/ StopWatcherAll
  \/ FileWrite
  \/ \E c \in 1..MaxCallers : StartCancelOld(c) \/ StartAssign(c)
  \/ \E i \in 1..MaxStarts :
       \/ FleetDone(i)
       \/ WatchDone(i)
       \/ WatchEvent(i)
       \/ TimerFire(i)
       \/ WatchTimer(i)
       \/ WaitPoll(i)
       \/ CallbackReturn(i)

SpecHandle == Init /\ [][NextHandle]_vars

\* clients that ensure blobs concurrently while a file is edited
NextBlob ==
  \/ \E p \in Paths, h \in Hashes : EditFile(p, h)
  \/ \E u \in 1..MaxUploaders, p \in Paths : UlCall(u, p)
  \/ \E u \in 1..MaxUploaders : UlExists(u)
  \/ \E u \in 1..MaxUploaders : UlPut(u)

SpecBlob == Init /\ [][NextBlob]_vars

\* a commit script that ensures the blobs and finalizes commit after commit
NextFinal ==
  \/ \E p \in Paths : ClientUploadIfMissing(p)
  \/ \E c \in CommitIds : FinalizeSeq(c)

SpecFinal == Init /\ [][NextFinal]_vars

\* one PullProject of a pushed project into a directory, with its caller
NextPull ==
  \/ \E byHead, allowDelete \in BOOLEAN, c \in CommitIds : PullStart(byHead, c, allowDelete)
  \/ \E w \in 1..NumWorkers : PullFeed(w)
  \/ PullFeederStop
  \/ \E w \in 1..NumWorkers : PullCheck(w)
  \/ \E w \in 1..NumWorkers : PullDownload(w)
  \/ \E w \in 1..NumWorkers : PullCollect(w)
  \/ PullFinish
  \/ PullCancel
  \/ MainWriteCache

SpecPull == InitPull /\ [][NextPull]_vars

\* the goroutines of a pull all keep running: the feeder, the workers and
\* the collect loop of the caller each take their next step when they can
PullFairness ==
  /\ WF_vars(PullFeederStop)
  /\ WF_vars(PullFinish)
  /\ \A w \in 1..NumWorkers :
       /\ WF_vars(PullFeed(w))
       /\ WF_vars(PullCheck(w))
       /\ WF_vars(PullDownload(w))
       /\ WF_vars(PullCollect(w))

SpecPullLive == InitPull /\ [][NextPull]_vars /\ PullFairness

\* PushProject calls and then one PullProject into a new directory
NextRound ==
  \/ \E c \in CommitIds : PushStart(c)
  \/ PushDecide
  \/ \E w \in 1..NumWorkers : Feed(w)
  \/ \E w \in 1..NumWorkers : Work(w)
  \/ \E w \in 1..NumWorkers : Collect(w)
  \/ PoolDone
  \/ UpsertSetHeader
  \/ UpsertSetCommit
  \/ UpsertSetState
  \/ \E byHead, allowDelete \in BOOLEAN, c \in CommitIds : PullStart(byHead, c, allowDelete)
  \/ \E w \in 1..NumWorkers : PullFeed(w)
  \/ \E w \in 1..NumWorkers : PullCheck(w)
  \/ \E w \in 1..NumWorkers : PullDownload(w)
  \/ \E w \in 1..NumWorkers : PullCollect(w)
  \/ PullFinish

SpecRound == Init /\ [][NextRound]_vars

\* ================================================================ claims
Count(seq, x) == Cardinality({i \in DOMAIN seq : seq[i] = x})

\* the step is a direct MetaStore call of operation op
Called(op) == calls' = calls + 1 /\ last'.op = op

\* the blob of a file entry is in the store: at BuildKey, or at the legacy
\* key for an entry committed while BuildKey produced legacy keys
HasBlob(f) ==
  \/ Exists(BuildKey(f.hash))
  \/ (f.r2Key = LegacyKey(f.hash) /\ Exists(LegacyKey(f.hash)))

\* C1: every project document whose HEAD is non-empty references a commit
\* document that exists and is final, with a state document all of whose
\* hashes have a blob at BuildKey (blobs are never deleted, so a blob that was
\* there when HEAD was set is still there).
HeadIsFinalAndVerified ==
  projDoc.exists =>
    \A h \in DecodedHeads(projDoc) :
      h # NoId =>
        /\ commits[h] # NoCommit
        /\ commits[h].status = "final"
        /\ states[h].exists
        /\ \A i \in DOMAIN states[h].files : HasBlob(states[h].files[i])

\* C2: a running PushProject advances HEAD only through FinalizeCommit (after
\* BeginCommit recorded the commit as pending).
PushAdvancesHeadByFinalizeOnly ==
  [][(pushPc # "idle" /\ DecodedHeads(projDoc') # DecodedHeads(projDoc))
       => last'.op = "FinalizeCommit"]_vars

FinalizeVerifyFailureWritesNothing ==
  [][(Called("FinalizeCommit") /\ last'.err = "verify") => UNCHANGED storeVars]_vars

FinalizeVerifyFailureWitness ==
  /\ last.op = "FinalizeCommit"
  /\ last.err = "verify"
  /\ ~VerifyAll(last.st)
  /\ commits[last.id].status = "pending"
  /\ states[last.id] = last.st

\* C5: PushProject writes HEAD only when every job of the push has reported
\* success, and a push with a failed job returns an error with HEAD as it was
\* when the push was called.
HeadAfterAllJobs ==
  [][/\ (projDoc' # projDoc =>
           /\ pushPc = "upsert"
           /\ {results[i].idx : i \in DOMAIN results} = {uploads[i].idx : i \in DOMAIN uploads}
           /\ \A i \in DOMAIN results : ~results[i].err)
     /\ ((pushPc # "idle" /\ pushPc' = "idle" /\ \E i \in DOMAIN results : results[i].err)
           => (pushRet' = "err" /\ projDoc' = before[1]))]_vars

HeadAfterAllJobsWitness ==
  /\ pushPc = "pool"
  /\ Len(uploads) = MaxPaths
  /\ Len(results) = Len(uploads)
  /\ results[1].idx # uploads[1].idx
  /\ ~results[1].err
  /\ results[Len(results)].err

\* C6: a FinalizeCommit that succeeds for a (commit, state) that is already
\* stored as final leaves HEAD at commit.id, the commit final and the state
\* document equal to state.
DoubleFinalize ==
  [][(/\ Called("FinalizeCommit")
      /\ last'.err = ""
      /\ commits[last'.id].status = "final"
      /\ states[last'.id] = last'.st)
       => /\ DecodedHeads(projDoc') = {last'.id}
          /\ commits'[last'.id].id = last'.id
          /\ commits'[last'.id].status = "final"
          /\ states'[last'.id] = last'.st]_vars

DoubleFinalizeWitness ==
  /\ last.op = "FinalizeCommit"
  /\ last.err = ""
  /\ Count(projDoc.last5, last.id) >= 2
  /\ projDoc.lastCommitId = last.id
  /\ blobs[LegacyKey(1)] = 0
  /\ edits = 0

\* C7: however often FinalizeCommit runs for a commit id, the id occurs once
\* in last5.
HeadAdvancesOncePerCommit ==
  \A c \in CommitIds : Count(projDoc.last5, c) <= 1

\* C8: a successful BeginCommit stores the commit as pending and the state
\* under commit.id, makes the project document exist, and leaves every HEAD
\* field as it was; on a project without HEAD, GetLatestState still returns none.
BeginCommitLeavesHead ==
  [][(Called("BeginCommit") /\ last'.err = "")
       => /\ commits'[last'.id].id = last'.id
          /\ commits'[last'.id].status = "pending"
          /\ states'[last'.id] = last'.st
          /\ projDoc'.exists
          /\ projDoc' = [projDoc EXCEPT !.exists = TRUE]
          /\ (GetLatestState(projDoc, commits, states) = {[kind |-> "none"]}
                => GetLatestState(projDoc', commits', states') = {[kind |-> "none"]})]_vars

BeginCommitLeavesHeadWitness ==
  /\ last.op = "BeginCommit"
  /\ last.err = ""
  /\ projDoc.exists
  /\ DecodedHeads(projDoc) = {NoId}
  /\ commits[last.id].status = "pending"

\* C9: when the context is cancelled before the metadata write has begun, the
\* push never returns success and the project, commit and state documents are
\* those of the moment PushProject was called.
CancelBeforeCommitKeepsHead ==
  cancelAt \in {"prev", "pool", "header"} =>
    /\ pushRet \in {"none", "err"}
    /\ (pushPc = "idle" => pushRet = "err")
    /\ <<projDoc, commits, states>> = before
    /\ GetLatestState(projDoc, commits, states) = GetLatestState(before[1], before[2], before[3])

CancelBeforeCommitWitness ==
  /\ cancelAt = "pool"
  /\ pushPc = "idle"
  /\ pushRet = "err"
  /\ \E r \in GetLatestState(projDoc, commits, states) : r.kind = "found"
  /\ \E h \in Hashes : Exists(BuildKey(h))

\* C10: once a job of the pool has failed, the feeder hands no further job to
\* a worker.
PoolAbortsOnFirstError ==
  [][((\E w \in 1..NumWorkers : wk[w].st = "res" /\ wk[w].err)
        \/ (\E i \in DOMAIN results : results[i].err))
       => fed' = fed]_vars

Last5IsRecentSuffix ==
  LET n == Len(finalized)
      k == IF n < 5 THEN n ELSE 5
  IN  /\ Len(projDoc.last5) = k
      /\ \A i \in 1..k : projDoc.last5[i] = finalized[n - k + i]

Last5IsRecentSuffixWitness ==
  /\ Len(finalized) > 5
  /\ Len(projDoc.last5) = 5
  /\ projDoc.last5[1] # projDoc.last5[5]
  /\ finalized[1] # finalized[Len(finalized) - 4]

\* the two states list the same paths with the same hashes
SameFiles(a, b) ==
  /\ Len(a.files) = Len(b.files)
  /\ \A i \in DOMAIN a.files :
        a.files[i].path = b.files[i].path /\ a.files[i].hash = b.files[i].hash

\* a PushProject is running, the previous one succeeded and the scan finds
\* the files it recorded
UnchangedPush == pushPc # "idle" /\ okState.exists /\ SameFiles(cur, okState)

Present(d, os, p) == d[Found(d, os, p)] # 0

\* the name n still has its file after a step (on Windows a file whose entry
\* took the other spelling is the same file)
Kept(d, os, n) ==
  \/ d[n] # 0
  \/ os = "windows" /\ \E p \in Paths : n = CasedName(p) /\ d[FileName(p)] # 0

\* path -> hash of a state document, as a set of <<path, hash>>
TargetManifest(st) ==
  {<<FileName(st.files[i].path), st.files[i].hash>> : i \in DOMAIN st.files}

\* C14: a DownloadTo that fails returns an error, leaves no file at
\* localPath + ".part", creates no file at localPath and leaves a file that was
\* there with its content; a DownloadTo that succeeds leaves the complete
\* object at localPath.
DownloadToAtomic ==
  [][\A w \in 1..NumWorkers :
       LET f == pull.target.files[pw[w].idx] IN
       /\ (pw[w].st = "job" /\ pw'[w].st = "res" /\ pw'[w].err = "open"
           => dest' = dest)
       /\ (pw[w].st = "dl" /\ pw'[w].st = "res" /\ pw'[w].err \in {"download", "canceled"}
           => /\ dest'[PartName(f.path)] = 0
              /\ \A n \in DestNames \ {PartName(f.path)} : dest'[n] = dest[n])
       /\ (pw[w].st = "dl" /\ pw'[w].st = "res" /\ pw'[w].err \in {"", "verify"}
           => /\ dest'[PartName(f.path)] = 0
              /\ blobs[PullKey(f)] # 0
              /\ dest'[FileName(f.path)] = blobs[PullKey(f)])]_vars

DownloadToAtomicWitness ==
  \E w \in 1..NumWorkers :
    /\ pw[w].st = "res"
    /\ pw[w].err = "download"
    /\ pull.target.files[pw[w].idx].path = 1
    /\ pull.start = StaleDest
    /\ dest[FileName(1)] = StaleDest[FileName(1)]
    /\ dest[PartName(1)] = 0

\* C15: whenever PullProject into an empty directory returns success, a scan
\* of the directory yields the manifest of the target state: every file of
\* target.files with its recorded hash, and no other tracked file.
PullThenScanEqualsTarget ==
  (pull.pc = "returned" /\ pull.ret = "ok" /\ pull.start = EmptyDest)
    => DestManifest(dest, goos) = TargetManifest(pull.target)

\* C16: PushProject of unmodified files followed by PullProject of the
\* resulting HEAD into a new directory gives, for every path of the pushed
\* state, a file with the bytes that were pushed.
RoundTripSameBytes ==
  (pull.pc = "returned" /\ pull.ret = "ok" /\ pull.head /\ pull.start = EmptyDest
     /\ pull.after.exists /\ edits = 0)
    => \A i \in DOMAIN pull.after.files :
         dest[FileName(pull.after.files[i].path)] = pull.after.files[i].hash

\* C17: when the context is cancelled while PullProject runs and a download is
\* cut by it, no temp file remains once the pull has returned and its
\* workers are at rest, and the LocalCache of the destination is not rewritten.
CancelledPullKeepsCache ==
  (pull.cut /\ pull.pc = "returned" /\ \A w \in 1..NumWorkers : pw[w].st \in {"idle", "res"})
    => /\ \A p \in Paths : dest[PartName(p)] # Truncated
       /\ ~pull.cached

\* C18: once PullProject has returned a worker's error, no worker of that pull
\* downloads or writes a file under destPath.
NoWriteAfterPullError ==
  [][(pull.pc = "returned" /\ pull.ret = "err") => dest' = dest]_vars

PullWithDeleteKeepsTarget ==
  [][(pull.pc = "pool" /\ pull'.pc = "returned" /\ pull'.ret = "ok" /\ pull.allowDelete)
       => /\ \A n \in DestNames :
               (/\ n # CacheName
                /\ \A i \in DOMAIN pull.target.files :
                     /\ n # FileName(pull.target.files[i].path)
                     /\ (goos = "windows" => n # CasedName(pull.target.files[i].path)))
               => dest'[n] = 0
          /\ \A i \in DOMAIN pull.target.files :
               Present(dest, goos, pull.target.files[i].path)
               => Present(dest', goos, pull.target.files[i].path)
          /\ dest'[CacheName] = dest[CacheName]]_vars

\* C21: the delete pass of a pull starts only after every download job of
\* that pull has completed: at the step that prunes, every file of the target
\* was handed out and collected and no worker holds a job or a download.
PruneAfterDownloads ==
  [][(pull.pc = "pool" /\ pull'.pc = "returned" /\ pull'.ret = "ok")
       => /\ pull.fed = Len(pull.target.files)
          /\ pull.got = Len(pull.target.files)
          /\ \A w \in 1..NumWorkers : pw[w].st = "idle"]_vars

PruneAfterDownloadsWitness ==
  /\ pull.pc = "returned"
  /\ pull.ret = "ok"
  /\ pull.allowDelete
  /\ pull.start = UsedDest(goos)
  /\ Len(pull.target.files) = MaxPaths
  /\ dest[StrayName] = 0
  /\ dest[FileName(MaxPaths)] = HashOf(MaxPaths)

\* C22: after a successful pull the LocalCache written for the destination
\* has manifest exactly {f.path -> f.hash : f in target.files}, for any prior
\* contents of the destination and either value of allowDelete.
PullCacheEqualsTarget ==
  (pull.pc = "returned" /\ pull.ret = "ok" /\ pull.cached)
    => pull.manifest = TargetManifest(pull.target)

\* C23: after a successful push the LocalCache manifest of the project equals
\* the manifest of the state that this push committed, whatever local file
\* modifications interleave with the push.
PushCacheEqualsPushed ==
  lc.pushed => lc.manifest = ManifestFromState(lc.state)

\* C24: at every instant during SaveLocalCache, and after a crash at any step
\* of it, a reader of .portsy/cache.json sees either the complete previous
\* content or the complete new content, never a truncated file.
CacheNeverTruncated ==
  (lc.save.new # NoFile /\ lc.save.prev.kind # "cut")
    => ReadCache(lc) \in {lc.save.prev, lc.save.new}

\* C25: LoadLocalCache never fails hard: for every condition of cache.json
\* (missing, unparseable, unreadable, valid) it returns a non-nil cache and
\* no error.
LoadNeverFailsHard ==
  lc.load.ret # "none" => (lc.load.ret = "cache" /\ ~lc.load.err)

BurstOneCallback ==
  \A i \in 1..MaxStarts : ~wt.w[i].late => wt.w[i].emitted <= 1

\* C28: a SaveEvent is emitted only after the full debounce duration has
\* elapsed since the last qualifying event of the burst (the timer that
\* expired was armed after that event), after the stability check succeeded,
\* and while no debounce timer is pending.
EmitAfterFullDebounce ==
  [][\A i \in 1..MaxStarts :
       (wt.w[i].pc = "poll" /\ wt'.w[i].pc = "callback" /\ ~wt.w[i].late)
         => (wt.w[i].covered /\ wt.w[i].tmr = "nil")]_vars

\* C29: for one project at most one onSave callback is in flight at any
\* time, also across rescans and across a restart of the fleet watcher.
OneCallbackInFlight ==
  Cardinality({i \in 1..MaxStarts : wt.w[i].pc = "callback"}) <= 1

\* C30: a SaveEvent is emitted only if two consecutive polls of the session
\* file both succeeded (stat and open) with identical size and mtime.
EmitAfterConsecutiveStablePolls ==
  \A i \in 1..MaxStarts : wt.w[i].pc = "callback" => wt.w[i].pairOk


GetLatestStateNeverHalfWritten ==
  \A r \in GetLatestState(projDoc, commits, states) : r.kind # "error"

\* C38: every object stored under a key built from digest h has content
\* whose digest is h
BlobContentMatchesKey ==
  \A k \in Keys : blobs[k] # 0 => blobs[k] = k[2]


\* C34: for every file of the scan PushProject chooses exactly one action:
\* a job without copy source (UploadIfMissing) when there is no previous
\* state, the path is new or the hash differs; the previous key carried
\* forward with no job when hash and key are the same; a job that copies
\* from the previous key (CopyIfMissing, the object taken from the store and
\* not from the local file) when the hash is the same and the key differs.
\* The state handed to the metadata write has blobKey = BuildKey(hash) for
\* every file, and no stored object is ever removed.
PushChoosesOneAction ==
  [][ /\ (pushPc = "prev" /\ pushPc' = "pool") =>
           \E r \in GetLatestState(projDoc, commits, states) \cup {[kind |-> "error"]} :
             LET prev == IF r.kind = "found" THEN r.state ELSE NoState
                 jobs(i) == {j \in DOMAIN uploads' : uploads'[j].idx = i}
                 same(f) == /\ prev.exists
                            /\ \E e \in {prev.files[j] : j \in DOMAIN prev.files} :
                                 e.path = f.path /\ e.hash = f.hash
                 old(f)  == (CHOOSE e \in {prev.files[j] : j \in DOMAIN prev.files} :
                               e.path = f.path).r2Key
             IN  \A i \in DOMAIN cur.files :
                   LET f == cur.files[i] IN
                   IF ~same(f)
                   THEN /\ \E j \in DOMAIN uploads' :
                             /\ jobs(i) = {j}
                             /\ uploads'[j].key = BuildKey(f.hash)
                             /\ uploads'[j].fromKey = NoKey
                        /\ cur'.files[i].r2Key = NoKey
                   ELSE IF old(f) = BuildKey(f.hash)
                   THEN /\ jobs(i) = {}
                        /\ cur'.files[i].r2Key = old(f)
                   ELSE /\ \E j \in DOMAIN uploads' :
                             /\ jobs(i) = {j}
                             /\ uploads'[j].key = BuildKey(f.hash)
                             /\ uploads'[j].fromKey = old(f)
                        /\ cur'.files[i].r2Key = NoKey
      /\ \A w \in 1..NumWorkers :
           (pushPc = "pool" /\ wk[w].st = "job" /\ wk'[w].st = "res") =>
             /\ \A k \in Keys \ {wk[w].key} : blobs'[k] = blobs[k]
             /\ blobs'[wk[w].key] # blobs[wk[w].key] =>
                  /\ blobs[wk[w].key] = 0
                  /\ blobs'[wk[w].key] =
                       (IF wk[w].fromKey # NoKey THEN blobs[wk[w].fromKey]
                        ELSE localFiles[cur.files[wk[w].idx].path])
      /\ (pushPc = "pool" /\ pushPc' = "upsert") =>
           \A i \in DOMAIN up'.state.files :
             up'.state.files[i].r2Key = BuildKey(up'.state.files[i].hash)
      /\ \A k \in Keys : blobs[k] # 0 => blobs'[k] # 0
    ]_vars

\* a push that copied one file from its old key and uploaded another has
\* handed its state to the metadata write, the old object still stored
PushChoosesOneActionWitness ==
  /\ pushPc = "upsert"
  /\ \E j \in DOMAIN uploads : uploads[j].fromKey # NoKey /\ blobs[uploads[j].fromKey] # 0
  /\ \E j \in DOMAIN uploads : uploads[j].fromKey = NoKey
  /\ \A i \in DOMAIN up.state.files : blobs[up.state.files[i].r2Key] # 0


\* C33: a scan of a project root that does not exist or cannot be read
\* fails, so PushProject goes past its scan (and on to pushing what the scan
\* returned) only when the root could be read
FailedRootScanNeverPushed ==
  [][ (pushPc = "idle" /\ pushPc' = "prev") => lc.root = "ok" ]_vars


\* C39: PullProject always terminates: a call that reached its worker pool
\* eventually returns, whenever its context is cancelled
PullTerminates == (pull.pc = "pool") ~> (pull.pc = "returned")


\* C40: once its context is cancelled, a WatchProjectALS begins no
\* stability check and makes no onSave call
NoSaveAfterCancel ==
  [][ \A i \in 1..MaxStarts :
        wt.w[i].cancelled =>
          /\ ~(wt.w[i].pc # "poll" /\ wt'.w[i].pc = "poll")
          /\ wt'.w[i].emitted = wt.w[i].emitted
    ]_vars


\* C31: after its context is cancelled, WatchAllProjects and the
\* WatchProjectALS it started eventually return and close their fsnotify
\* watchers, whatever the state of the loop at that moment, provided the
\* running callback returns
CancelledWatchersReturn ==
  \A i \in 1..MaxStarts :
    wt.fleet[i].cancelled ~>
      /\ wt.fleet[i].pc = "exited" /\ wt.fleet[i].closed
      /\ wt.w[i].pc = "exited" /\ wt.w[i].closed

\* a fleet whose context was cancelled while its watcher was polling the
\* file has returned, and so has the watcher, both with their watchers closed
CancelledWatchersReturnWitness ==
  \E i \in 1..MaxStarts :
    /\ wt.w[i].at = "stabilizing"
    /\ wt.fleet[i].pc = "exited" /\ wt.fleet[i].closed
    /\ wt.w[i].pc = "exited" /\ wt.w[i].closed


\* C32: whenever a directory directly under the watched root holds a
\* top-level session file while WatchAllProjects runs, a per-project watcher
\* for that directory is eventually started
NewProjectEventuallyWatched ==
  \A i \in 1..MaxStarts :
    (wt.qdir = "als" /\ wt.fleet[i].pc = "run") ~> wt.fleet[i].hasQ

\* C35: under any interleaving of StartWatcherAll and StopWatcherAll calls
\* at most one fleet runs with its context not cancelled, and after a
\* StopWatcherAll that no StartWatcherAll follows none does
CancelHandleNeverLost ==
  LET live == {i \in 1..MaxStarts : wt.fleet[i].pc = "run" /\ ~wt.fleet[i].cancelled}
  IN  /\ Cardinality(live) <= 1
      /\ (wt.op = "stop" /\ \A c \in 1..MaxCallers : wt.call[c] = "idle") => live = {}

====
